---- MODULE Spec2Model ----
(***************************************************************************)
(* A model of the P&L inference-and-analytics pipeline of valta-ai:        *)
(*   app/services/pl_parser.py            PLParser                         *)
(*   app/services/account_mapper.py       AccountMapper                    *)
(*   app/services/startup_metrics.py      StartupMetricsCalculator         *)
(*   app/services/waterfall_calculator.py WaterfallCalculator              *)
(*                                                                         *)
(* Conventions.                                                            *)
(*  - A Python str is a sequence of one-character strings, so that         *)
(*    lower(), split(), "kw in s" and the fuzzy score are computed.        *)
(*  - A money amount is an integer number of thousandths of the currency   *)
(*    unit (0.01 is 10, 1.00 is 1000).                                     *)
(*  - Null is None where the model writes a Python str as a TLA+ string   *)
(*    (a category); NaN is the empty cell of a text column.                *)
(*  - A confidence or score is an exact fraction [num, den], den > 0.      *)
(***************************************************************************)
EXTENDS Integers, Sequences, FiniteSets, TLC

Null == "null"

\* The empty cell of a text column (pandas NaN): a value that is no str.
NaN == <<"NaN">>

\* ------------------------------------------------------------------------
\* Python str operations
\* ------------------------------------------------------------------------

\* The characters of the model in code-point order (Python compares str by
\* code point): space, punctuation, digits, upper case, lower case.
CharTable ==
  <<" ","&","(",")","-",".","0","1","2","3","4","5","6","7","8","9",
    "A","B","C","D","E","F","G","H","I","J","K","L","M",
    "N","O","P","Q","R","S","T","U","V","W","X","Y","Z",
    "a","b","c","d","e","f","g","h","i","j","k","l","m",
    "n","o","p","q","r","s","t","u","v","w","x","y","z">>

UpperChars ==
  <<"A","B","C","D","E","F","G","H","I","J","K","L","M",
    "N","O","P","Q","R","S","T","U","V","W","X","Y","Z">>

LowerChars ==
  <<"a","b","c","d","e","f","g","h","i","j","k","l","m",
    "n","o","p","q","r","s","t","u","v","w","x","y","z">>

Ord(c) == CHOOSE i \in 1..Len(CharTable) : CharTable[i] = c

LowerChar(c) ==
  IF \E i \in 1..Len(UpperChars) : UpperChars[i] = c
  THEN LowerChars[CHOOSE i \in 1..Len(UpperChars) : UpperChars[i] = c]
  ELSE c

\* str.lower()
Lower(s) == [i \in 1..Len(s) |-> LowerChar(s[i])]

\* kw in s  (substring test)
Contains(s, kw) ==
  \E i \in 1..(Len(s) - Len(kw) + 1) : SubSeq(s, i, i + Len(kw) - 1) = kw

\* any(kw in s for kw in keywords)
ContainsAny(s, keywords) ==
  \E k \in 1..Len(keywords) : Contains(s, keywords[k])

IsSpace(c) == c = " "

\* str.split(): the maximal runs of non-whitespace characters, in order.
RECURSIVE SplitFrom(_, _, _)
SplitFrom(s, i, cur) ==
  IF i > Len(s)
  THEN IF cur = <<>> THEN <<>> ELSE <<cur>>
  ELSE IF IsSpace(s[i])
       THEN IF cur = <<>>
            THEN SplitFrom(s, i + 1, <<>>)
            ELSE <<cur>> \o SplitFrom(s, i + 1, <<>>)
       ELSE SplitFrom(s, i + 1, Append(cur, s[i]))

Split(s) == SplitFrom(s, 1, <<>>)

\* a < b for two str (lexicographic on code points)
RECURSIVE StrLess(_, _)
StrLess(a, b) ==
  IF b = <<>> THEN FALSE
  ELSE IF a = <<>> THEN TRUE
  ELSE IF Ord(a[1]) < Ord(b[1]) THEN TRUE
  ELSE IF Ord(a[1]) > Ord(b[1]) THEN FALSE
  ELSE StrLess(Tail(a), Tail(b))

\* sorted(tokens): insertion into an ascending list, equal tokens keep order
RECURSIVE InsertToken(_, _)
InsertToken(sorted, t) ==
  IF sorted = <<>> THEN <<t>>
  ELSE IF StrLess(t, sorted[1]) THEN <<t>> \o sorted
  ELSE <<sorted[1]>> \o InsertToken(Tail(sorted), t)

RECURSIVE SortTokens(_)
SortTokens(tokens) ==
  IF tokens = <<>> THEN <<>>
  ELSE InsertToken(SortTokens(SubSeq(tokens, 1, Len(tokens) - 1)), tokens[Len(tokens)])

\* " ".join(tokens)
RECURSIVE JoinSpace(_)
JoinSpace(tokens) ==
  IF tokens = <<>> THEN <<>>
  ELSE IF Len(tokens) = 1 THEN tokens[1]
  ELSE tokens[1] \o <<" ">> \o JoinSpace(Tail(tokens))

Max2(a, b) == IF a >= b THEN a ELSE b
Min2(a, b) == IF a <= b THEN a ELSE b
Abs(x) == IF x < 0 THEN -x ELSE x

\* ------------------------------------------------------------------------
\* rapidfuzz.fuzz.token_sort_ratio
\* ------------------------------------------------------------------------

\* The largest element of a non-empty set of integers.
SetMax(S) == CHOOSE m \in S : \A y \in S : y <= m

\* One row of the longest-common-subsequence table. prev is the row of the
\* previous character of a: prev[j + 1] is the LCS length against the first j
\* characters of b. A common subsequence either does not use ch, or pairs
\* it with some b[k], k <= j.
LcsRow(ch, b, prev) ==
  SubSeq([jj \in 1..(Len(b) + 1) |->
            SetMax({prev[jj]} \cup {prev[k] + 1 : k \in {k \in 1..(jj - 1) : b[k] = ch}})],
         1, Len(b) + 1)

RECURSIVE LcsRows(_, _, _, _)
LcsRows(a, b, i, prev) ==
  IF i > Len(a) THEN prev[Len(b) + 1]
  ELSE LET row == LcsRow(a[i], b, prev)
       IN IF Len(row) = Len(b) + 1 THEN LcsRows(a, b, i + 1, row) ELSE -1

LcsLen(a, b) == LcsRows(a, b, 1, SubSeq([j \in 1..(Len(b) + 1) |-> 0], 1, Len(b) + 1))

\* fuzz.ratio: 100 * (1 - indel_distance / (len1 + len2)), the indel distance
\* being len1 + len2 - 2 * lcs; 100 for two empty strings.
ratio(a, b) ==
  IF Len(a) + Len(b) = 0 THEN [num |-> 100, den |-> 1]
  ELSE [num |-> 200 * LcsLen(a, b), den |-> Len(a) + Len(b)]

token_sort_ratio(s1, s2) ==
  ratio(JoinSpace(SortTokens(Split(s1))), JoinSpace(SortTokens(Split(s2))))

\* comparisons of exact fractions
FracLess(x, y) == x.num * y.den < y.num * x.den
FracGreater(x, y) == FracLess(y, x)
FracEq(x, y) == x.num * y.den = y.num * x.den
Frac(n, d) == [num |-> n, den |-> d]

\* ------------------------------------------------------------------------
\* account_mapper.py
\* ------------------------------------------------------------------------

Taxonomy ==
  {"Revenue", "Cost of Goods Sold", "Operating Expenses",
   "Financial Items", "Non-Operating Items", "Tax"}

\* The standard chart of accounts, flattened in the iteration order of the
\* dict (category by category, account by account).
STANDARD_ACCOUNTS ==
  <<
    [category |-> "Revenue", std_account |-> <<"S","a","l","e","s"," ","R","e","v","e","n","u","e">>],
    [category |-> "Revenue", std_account |-> <<"S","e","r","v","i","c","e"," ","R","e","v","e","n","u","e">>],
    [category |-> "Revenue", std_account |-> <<"P","r","o","d","u","c","t"," ","S","a","l","e","s">>],
    [category |-> "Revenue", std_account |-> <<"C","o","n","s","u","l","t","i","n","g"," ","R","e","v","e","n","u","e">>],
    [category |-> "Revenue", std_account |-> <<"S","u","b","s","c","r","i","p","t","i","o","n"," ","R","e","v","e","n","u","e">>],
    [category |-> "Revenue", std_account |-> <<"L","i","c","e","n","s","e"," ","R","e","v","e","n","u","e">>],
    [category |-> "Revenue", std_account |-> <<"O","t","h","e","r"," ","I","n","c","o","m","e">>],
    [category |-> "Revenue", std_account |-> <<"I","n","t","e","r","e","s","t"," ","I","n","c","o","m","e">>],
    [category |-> "Revenue", std_account |-> <<"R","e","n","t","a","l"," ","I","n","c","o","m","e">>],
    [category |-> "Revenue", std_account |-> <<"C","o","m","m","i","s","s","i","o","n"," ","I","n","c","o","m","e">>],
    [category |-> "Cost of Goods Sold", std_account |-> <<"C","o","s","t"," ","o","f"," ","S","a","l","e","s">>],
    [category |-> "Cost of Goods Sold", std_account |-> <<"C","o","s","t"," ","o","f"," ","G","o","o","d","s"," ","S","o","l","d">>],
    [category |-> "Cost of Goods Sold", std_account |-> <<"D","i","r","e","c","t"," ","M","a","t","e","r","i","a","l","s">>],
    [category |-> "Cost of Goods Sold", std_account |-> <<"D","i","r","e","c","t"," ","L","a","b","o","r">>],
    [category |-> "Cost of Goods Sold", std_account |-> <<"M","a","n","u","f","a","c","t","u","r","i","n","g"," ","C","o","s","t","s">>],
    [category |-> "Cost of Goods Sold", std_account |-> <<"I","n","v","e","n","t","o","r","y"," ","C","o","s","t","s">>],
    [category |-> "Cost of Goods Sold", std_account |-> <<"S","h","i","p","p","i","n","g"," ","C","o","s","t","s">>],
    [category |-> "Cost of Goods Sold", std_account |-> <<"P","r","o","d","u","c","t"," ","C","o","s","t","s">>],
    [category |-> "Cost of Goods Sold", std_account |-> <<"C","o","s","t"," ","o","f"," ","S","e","r","v","i","c","e","s">>],
    [category |-> "Operating Expenses", std_account |-> <<"S","a","l","a","r","i","e","s"," ","&"," ","W","a","g","e","s">>],
    [category |-> "Operating Expenses", std_account |-> <<"R","e","n","t">>],
    [category |-> "Operating Expenses", std_account |-> <<"M","a","r","k","e","t","i","n","g"," ","&"," ","A","d","v","e","r","t","i","s","i","n","g">>],
    [category |-> "Operating Expenses", std_account |-> <<"U","t","i","l","i","t","i","e","s">>],
    [category |-> "Operating Expenses", std_account |-> <<"D","e","p","r","e","c","i","a","t","i","o","n">>],
    [category |-> "Operating Expenses", std_account |-> <<"P","r","o","f","e","s","s","i","o","n","a","l"," ","F","e","e","s">>],
    [category |-> "Operating Expenses", std_account |-> <<"I","n","s","u","r","a","n","c","e">>],
    [category |-> "Operating Expenses", std_account |-> <<"O","f","f","i","c","e"," ","S","u","p","p","l","i","e","s">>],
    [category |-> "Operating Expenses", std_account |-> <<"T","r","a","v","e","l"," ","&"," ","E","n","t","e","r","t","a","i","n","m","e","n","t">>],
    [category |-> "Operating Expenses", std_account |-> <<"S","o","f","t","w","a","r","e"," ","&"," ","T","e","c","h","n","o","l","o","g","y">>],
    [category |-> "Operating Expenses", std_account |-> <<"R","e","p","a","i","r","s"," ","&"," ","M","a","i","n","t","e","n","a","n","c","e">>],
    [category |-> "Operating Expenses", std_account |-> <<"P","a","y","r","o","l","l"," ","T","a","x","e","s">>],
    [category |-> "Operating Expenses", std_account |-> <<"E","m","p","l","o","y","e","e"," ","B","e","n","e","f","i","t","s">>],
    [category |-> "Operating Expenses", std_account |-> <<"T","r","a","i","n","i","n","g"," ","&"," ","D","e","v","e","l","o","p","m","e","n","t">>],
    [category |-> "Operating Expenses", std_account |-> <<"R","e","s","e","a","r","c","h"," ","&"," ","D","e","v","e","l","o","p","m","e","n","t">>],
    [category |-> "Operating Expenses", std_account |-> <<"L","e","g","a","l"," ","F","e","e","s">>],
    [category |-> "Operating Expenses", std_account |-> <<"A","c","c","o","u","n","t","i","n","g"," ","F","e","e","s">>],
    [category |-> "Operating Expenses", std_account |-> <<"C","o","n","s","u","l","t","i","n","g"," ","F","e","e","s">>],
    [category |-> "Operating Expenses", std_account |-> <<"T","e","l","e","c","o","m","m","u","n","i","c","a","t","i","o","n","s">>],
    [category |-> "Operating Expenses", std_account |-> <<"P","o","s","t","a","g","e"," ","&"," ","D","e","l","i","v","e","r","y">>],
    [category |-> "Financial Items", std_account |-> <<"I","n","t","e","r","e","s","t"," ","E","x","p","e","n","s","e">>],
    [category |-> "Financial Items", std_account |-> <<"B","a","n","k"," ","C","h","a","r","g","e","s">>],
    [category |-> "Financial Items", std_account |-> <<"F","o","r","e","i","g","n"," ","E","x","c","h","a","n","g","e"," ","G","a","i","n">>],
    [category |-> "Financial Items", std_account |-> <<"F","o","r","e","i","g","n"," ","E","x","c","h","a","n","g","e"," ","L","o","s","s">>],
    [category |-> "Financial Items", std_account |-> <<"I","n","v","e","s","t","m","e","n","t"," ","I","n","c","o","m","e">>],
    [category |-> "Financial Items", std_account |-> <<"D","i","v","i","d","e","n","d"," ","I","n","c","o","m","e">>],
    [category |-> "Non-Operating Items", std_account |-> <<"G","a","i","n"," ","o","n"," ","S","a","l","e"," ","o","f"," ","A","s","s","e","t","s">>],
    [category |-> "Non-Operating Items", std_account |-> <<"L","o","s","s"," ","o","n"," ","S","a","l","e"," ","o","f"," ","A","s","s","e","t","s">>],
    [category |-> "Non-Operating Items", std_account |-> <<"I","m","p","a","i","r","m","e","n","t"," ","L","o","s","s">>],
    [category |-> "Non-Operating Items", std_account |-> <<"E","x","t","r","a","o","r","d","i","n","a","r","y"," ","G","a","i","n","s">>],
    [category |-> "Non-Operating Items", std_account |-> <<"E","x","t","r","a","o","r","d","i","n","a","r","y"," ","L","o","s","s","e","s">>],
    [category |-> "Non-Operating Items", std_account |-> <<"O","t","h","e","r"," ","N","o","n","-","O","p","e","r","a","t","i","n","g"," ","I","n","c","o","m","e">>],
    [category |-> "Non-Operating Items", std_account |-> <<"O","t","h","e","r"," ","N","o","n","-","O","p","e","r","a","t","i","n","g"," ","E","x","p","e","n","s","e">>],
    [category |-> "Tax", std_account |-> <<"I","n","c","o","m","e"," ","T","a","x"," ","E","x","p","e","n","s","e">>],
    [category |-> "Tax", std_account |-> <<"T","a","x"," ","P","r","o","v","i","s","i","o","n">>],
    [category |-> "Tax", std_account |-> <<"D","e","f","e","r","r","e","d"," ","T","a","x">>],
    [category |-> "Tax", std_account |-> <<"S","t","a","t","e"," ","T","a","x">>],
    [category |-> "Tax", std_account |-> <<"F","e","d","e","r","a","l"," ","T","a","x">>]
  >>

\* Account names that occur in the statements of the model.
N_Rent == <<"R","e","n","t">>
N_TotalRevenue == <<"T","o","t","a","l"," ","R","e","v","e","n","u","e">>
N_Payroll == <<"P","a","y","r","o","l","l">>
N_Misc == <<"M","i","s","c">>
N_InterestIncome == <<"I","n","t","e","r","e","s","t"," ","I","n","c","o","m","e">>
N_SalesRevenue == <<"S","a","l","e","s"," ","R","e","v","e","n","u","e">>
N_ServiceRevenue == <<"S","e","r","v","i","c","e"," ","R","e","v","e","n","u","e">>
N_CostOfSales == <<"C","o","s","t"," ","o","f"," ","S","a","l","e","s">>
N_BankCharges == <<"B","a","n","k"," ","C","h","a","r","g","e","s">>
N_IncomeTaxExpense == <<"I","n","c","o","m","e"," ","T","a","x"," ","E","x","p","e","n","s","e">>
N_ImpairmentLoss == <<"I","m","p","a","i","r","m","e","n","t"," ","L","o","s","s">>

NamePool ==
  <<N_Rent, N_TotalRevenue, N_Payroll, N_Misc, N_InterestIncome, N_SalesRevenue,
    N_ServiceRevenue, N_CostOfSales, N_BankCharges, N_IncomeTaxExpense,
    N_ImpairmentLoss>>

\* A JSON number / null / string as the value of a 'confidence' field.
Num(n, d) == [t |-> "num", num |-> n, den |-> d]
JNull == [t |-> "null"]
JStr == [t |-> "str"]

\* threshold: int = 70   (_fuzzy_match's default argument)
threshold == 70

\* all_matches of _fuzzy_match: one score per (category, std_account) of
\* accounts, the flattened STANDARD_ACCOUNTS.
score_accounts(account_name, accounts) ==
  SubSeq([k \in 1..Len(accounts) |->
            [category |-> accounts[k].category,
             std_account |-> accounts[k].std_account,
             score |-> token_sort_ratio(Lower(account_name),
                                        Lower(accounts[k].std_account))]],
         1, Len(accounts))

all_matches(account_name) == score_accounts(account_name, STANDARD_ACCOUNTS)

\* max(all_matches, key=score): the first entry that no other entry beats.
best_match(matches) ==
  matches[CHOOSE k \in 1..Len(matches) :
            /\ \A j \in 1..Len(matches) : ~FracLess(matches[k].score, matches[j].score)
            /\ \A j \in 1..(k - 1) : FracLess(matches[j].score, matches[k].score)]

\* The dict _fuzzy_match returns for the best match: the match itself at or
\* above the threshold, Uncategorized below it.
match_result(best) ==
  LET confidence == Num(best.score.num, best.score.den * 100)
  IN IF ~FracLess(best.score, Frac(threshold, 1))
     THEN [category |-> best.category, subcategory |-> best.std_account,
           is_subtotal |-> FALSE, confidence |-> confidence, method |-> "fuzzy"]
     ELSE [category |-> "Uncategorized", subcategory |-> <<>>,
           is_subtotal |-> FALSE, confidence |-> confidence, method |-> "fuzzy"]

_fuzzy_match(account_name) == match_result(best_match(all_matches(account_name)))

\* _fuzzy_match is a pure function of the name: its value for every name of
\* the model, computed once.
FuzzyTable == {<<NamePool[i], _fuzzy_match(NamePool[i])>> : i \in 1..Len(NamePool)}

Fuzzy(account_name) == (CHOOSE p \in FuzzyTable : p[1] = account_name)[2]

\* dict.get(key, default)
Get(d, key, default) == IF key \in DOMAIN d THEN d[key] ELSE default

\* d[key] = value on a dict
Put(d, key, value) == [k \in (DOMAIN d) \cup {key} |-> IF k = key THEN value ELSE d[k]]

EmptyDict == [k \in {} |-> Null]

\* The external categorization collaborator answers in one of these ways:
\*   no_client  self.ai_client is None (use_ai off, no API key, no SDK)
\*   api_error  messages.create / completions.create raises (timeout, auth)
\*   non_json   the text is not JSON: json.loads raises
\*   json       the text is a JSON object; mapping is its key -> value map, a
\*              value being [type |-> "object", fields |-> ...] or another
\*              JSON value ([type |-> "string"]).
\* _claude_categorize and _openai_categorize convert the mapping alike.
_ai_categorize(ai) ==
  IF ai.mode # "json" THEN [raised |-> TRUE]
  ELSE IF \E k \in DOMAIN ai.mapping : ai.mapping[k].type # "object"
       THEN [raised |-> TRUE]    \* data.get on a str: AttributeError
       ELSE [raised |-> FALSE,
             results |->
               [k \in DOMAIN ai.mapping |->
                  LET data == ai.mapping[k].fields
                  IN [category |-> Get(data, "category", "Unknown"),
                      subcategory |-> Get(data, "subcategory", <<>>),
                      is_subtotal |-> Get(data, "is_subtotal", FALSE),
                      confidence |-> Get(data, "confidence", Num(9, 10)),
                      method |-> "ai"]]]

\* confidence < 0.7 and a > b on numbers
ConfLess(a, b) == a.num * b.den < b.num * a.den

\* A faulty variant of FillMissing: fuzzy matching is tried for every name, whatever
\* the AI confidence.
RECURSIVE FillMissingAlways(_, _, _)
FillMissingAlways(names, i, results) ==
  IF i > Len(names) THEN [raised |-> FALSE, results |-> results]
  ELSE LET nm == names[i]
       IN IF nm \notin DOMAIN results
          THEN FillMissingAlways(names, i + 1, Put(results, nm, Fuzzy(nm)))
          ELSE IF results[nm].confidence.t # "num"
          THEN [raised |-> TRUE, error |-> "TypeError"]
          ELSE IF ConfLess(results[nm].confidence, Fuzzy(nm).confidence)
               THEN FillMissingAlways(names, i + 1, Put(results, nm, Fuzzy(nm)))
               ELSE FillMissingAlways(names, i + 1, results)

\* The loop of categorize_accounts over account_names. Comparing a
\* confidence that is None or a str with 0.7 raises TypeError, outside the
\* try block.
RECURSIVE FillMissing(_, _, _)
FillMissing(names, i, results) ==
  IF i > Len(names) THEN [raised |-> FALSE, results |-> results]
  ELSE LET nm == names[i]
       IN IF nm \notin DOMAIN results
          THEN FillMissing(names, i + 1, Put(results, nm, Fuzzy(nm)))
          ELSE IF results[nm].confidence.t # "num"
          THEN [raised |-> TRUE, error |-> "TypeError"]
          ELSE IF ConfLess(results[nm].confidence, Num(7, 10))
               THEN IF ConfLess(results[nm].confidence, Fuzzy(nm).confidence)
                    THEN FillMissing(names, i + 1, Put(results, nm, Fuzzy(nm)))
                    ELSE FillMissing(names, i + 1, results)
               ELSE FillMissing(names, i + 1, results)

categorize_accounts(names, ai) ==
  LET ai_results == IF ai.mode = "no_client" THEN [raised |-> TRUE]
                    ELSE _ai_categorize(ai)
      results == IF ai_results.raised THEN EmptyDict ELSE ai_results.results
  IN FillMissing(names, 1, results)

\* df[account_column].dropna().unique().tolist()
RECURSIVE UniqueNames(_, _, _)
UniqueNames(df, i, acc) ==
  IF i > Len(df) THEN acc
  ELSE IF df[i].account = NaN \/ (\E j \in 1..Len(acc) : acc[j] = df[i].account)
       THEN UniqueNames(df, i + 1, acc)
       ELSE UniqueNames(df, i + 1, Append(acc, df[i].account))

\* batch_categorize_dataframe: the rows of df with the mapping columns set.
\* A row whose account is NaN is not a key of mappings and gets the defaults.
batch_categorize_dataframe(df, ai) ==
  LET mappings == categorize_accounts(UniqueNames(df, 1, <<>>), ai)
      entry(acct) == IF acct # NaN /\ acct \in DOMAIN mappings.results
                     THEN mappings.results[acct] ELSE EmptyDict
  IN IF mappings.raised THEN [raised |-> TRUE, error |-> mappings.error]
     ELSE [raised |-> FALSE,
           df |-> [r \in 1..Len(df) |->
                    LET e == entry(df[r].account)
                        conf == Get(e, "confidence", Num(0, 1))
                    IN [account |-> df[r].account,
                        category |-> Get(e, "category", "Unknown"),
                        subcategory |-> Get(e, "subcategory", <<>>),
                        is_subtotal_mapped |-> Get(e, "is_subtotal", FALSE),
                        mapping_confidence |-> conf,
                        mapping_method |-> Get(e, "method", "none"),
                        needs_review |-> ConfLess(conf, Num(75, 100))]]]

\* ------------------------------------------------------------------------
\* waterfall_calculator.py
\* ------------------------------------------------------------------------

\* A cell of a value column: NA (NaN) or a number of thousandths.
NA == [na |-> TRUE]
Amt(n) == [na |-> FALSE, v |-> n]

\* round(a / b) for b > 0, to the nearest integer, halves to even.
RoundDiv(a, b) ==
  LET q == a \div b
      r == a - q * b
  IN IF 2 * r < b THEN q
     ELSE IF 2 * r > b THEN q + 1
     ELSE IF q % 2 = 0 THEN q ELSE q + 1

\* round(v, 2) of an amount in thousandths
Round2(v) == RoundDiv(v, 10) * 10

\* df[cols].sum(axis=1) for one row: NaN cells are skipped, no cell gives 0.
RECURSIVE RowSum(_, _)
RowSum(row, cols) ==
  IF cols = <<>> THEN 0
  ELSE (IF row.vals[cols[1]].na THEN 0 ELSE row.vals[cols[1]].v) + RowSum(row, Tail(cols))

\* series.sum() of one field over the rows of a frame
RECURSIVE SumField(_, _)
SumField(frame, field) ==
  IF frame = <<>> THEN 0 ELSE frame[1][field] + SumField(Tail(frame), field)

\* df[mask].copy(): the rows whose index label is in mask, in order, each
\* with its index label.
RECURSIVE SelectRows(_, _, _)
SelectRows(df, mask, i) ==
  IF i > Len(df) THEN <<>>
  ELSE IF i \in mask
       THEN <<[idx |-> i, account |-> df[i].account, row |-> df[i]]>>
            \o SelectRows(df, mask, i + 1)
       ELSE SelectRows(df, mask, i + 1)

\* The period1_total, period2_total and movement columns, and the movement
\* times sign as the impact column.
WithMovement(frame, period1_cols, period2_cols, sign) ==
  [k \in 1..Len(frame) |->
     LET t1 == RowSum(frame[k].row, period1_cols)
         t2 == RowSum(frame[k].row, period2_cols)
     IN [idx |-> frame[k].idx, account |-> frame[k].account,
         period1_total |-> t1, period2_total |-> t2,
         movement |-> t2 - t1, impact |-> (t2 - t1) * sign]]

\* A faulty variant of nlargest: the rows are ranked by signed impact.
RECURSIVE nlargest_signed(_, _)
nlargest_signed(frame, n) ==
  IF n <= 0 \/ frame = <<>> THEN <<>>
  ELSE LET k == CHOOSE k \in 1..Len(frame) :
                  /\ \A j \in 1..Len(frame) : frame[j].impact <= frame[k].impact
                  /\ \A j \in 1..(k - 1) : frame[j].impact < frame[k].impact
       IN <<frame[k]>>
          \o nlargest_signed(SubSeq(frame, 1, k - 1) \o SubSeq(frame, k + 1, Len(frame)), n - 1)

\* A faulty variant of nlargest: one row more than asked for.
RECURSIVE nlargest_one_more(_, _)
nlargest_one_more(frame, n) ==
  IF n < 0 \/ frame = <<>> THEN <<>>
  ELSE LET k == CHOOSE k \in 1..Len(frame) :
                  /\ \A j \in 1..Len(frame) : Abs(frame[j].impact) <= Abs(frame[k].impact)
                  /\ \A j \in 1..(k - 1) : Abs(frame[j].impact) < Abs(frame[k].impact)
       IN <<frame[k]>>
          \o nlargest_one_more(SubSeq(frame, 1, k - 1) \o SubSeq(frame, k + 1, Len(frame)), n - 1)

\* frame.nlargest(n, abs column): the n rows of greatest absolute impact in
\* descending order, the earlier row first among equals (keep='first');
\* no row for n <= 0.
RECURSIVE nlargest(_, _)
nlargest(frame, n) ==
  IF n <= 0 \/ frame = <<>> THEN <<>>
  ELSE LET k == CHOOSE k \in 1..Len(frame) :
                  /\ \A j \in 1..Len(frame) : Abs(frame[j].impact) <= Abs(frame[k].impact)
                  /\ \A j \in 1..(k - 1) : Abs(frame[j].impact) < Abs(frame[k].impact)
       IN <<frame[k]>>
          \o nlargest(SubSeq(frame, 1, k - 1) \o SubSeq(frame, k + 1, Len(frame)), n - 1)

\* frame[~frame.index.isin(top_drivers.index)][impact].sum()
RECURSIVE OtherSum(_, _)
OtherSum(frame, top_drivers) ==
  IF frame = <<>> THEN 0
  ELSE (IF \E d \in 1..Len(top_drivers) : top_drivers[d].idx = frame[1].idx
        THEN 0 ELSE frame[1].impact)
       + OtherSum(Tail(frame), top_drivers)

L_Period1 == <<"P","e","r","i","o","d"," ","1">>
L_Period2 == <<"P","e","r","i","o","d"," ","2">>
L_Other == <<"O","t","h","e","r">>
L_GrossProfit == <<"G","r","o","s","s"," ","P","r","o","f","i","t">>
L_OperatingProfit == <<"O","p","e","r","a","t","i","n","g"," ","P","r","o","f","i","t">>
L_NetProfit == <<"N","e","t"," ","P","r","o","f","i","t">>

Blue == "#3b82f6"
Green == "#10b981"
Red == "#ef4444"

\* account_name[:30] + '...' if len(account_name) > 30 else account_name
display_name(account_name) ==
  IF Len(account_name) > 30
  THEN SubSeq(account_name, 1, 30) \o <<".", ".", ".">>
  ELSE account_name

\* A faulty variant of OtherBar: the Other bar is emitted whenever it is not zero.
OtherBarNonZero(other_movement) ==
  IF other_movement # 0
  THEN <<[category |-> L_Other, value |-> other_movement,
          color |-> IF other_movement > 0 THEN Green ELSE Red,
          measure |-> "relative"]>>
  ELSE <<>>

\* The "Other" bar: emitted only if abs(other_movement) > 0.01.
OtherBar(other_movement) ==
  IF Abs(other_movement) > 10
  THEN <<[category |-> L_Other, value |-> other_movement,
          color |-> IF other_movement > 0 THEN Green ELSE Red,
          measure |-> "relative"]>>
  ELSE <<>>

\* The bars of a waterfall and the summary fields of the returned dict.
\* total_movement_pct is in hundredths of a percent.
WaterfallDict(label1, label2, period1_value, period2_value, top_drivers, other_movement) ==
  LET bars ==
        <<[category |-> label1, value |-> period1_value, color |-> Blue,
           measure |-> "absolute"]>>
        \o [d \in 1..Len(top_drivers) |->
              [category |-> display_name(top_drivers[d].account),
               value |-> top_drivers[d].impact,
               color |-> IF top_drivers[d].impact > 0 THEN Green ELSE Red,
               measure |-> "relative"]]
        \o OtherBar(other_movement)
        \o <<[category |-> label2, value |-> period2_value, color |-> Blue,
              measure |-> "total"]>>
      total_movement == period2_value - period1_value
  IN [raised |-> FALSE,
      categories |-> [b \in 1..Len(bars) |-> bars[b].category],
      values |-> [b \in 1..Len(bars) |-> bars[b].value],
      colors |-> [b \in 1..Len(bars) |-> bars[b].color],
      measures |-> [b \in 1..Len(bars) |-> bars[b].measure],
      period1_value |-> Round2(period1_value),
      period2_value |-> Round2(period2_value),
      total_movement |-> Round2(total_movement),
      total_movement_pct |->
        IF period1_value # 0
        THEN IF period1_value > 0
             THEN RoundDiv(total_movement * 10000, period1_value)
             ELSE RoundDiv(-(total_movement * 10000), -period1_value)
        ELSE 0,
      y_min |-> IF period1_value > 0 THEN RoundDiv(period1_value * 8, 100) * 10
                ELSE -(RoundDiv(-(period1_value * 12), 100) * 10),
      top_drivers_count |-> Len(top_drivers),
      other_movement |-> Round2(other_movement)]

\* calculate_waterfall: metric_filter is a category or Null (None). The
\* movement of a row is not signed here.
calculate_waterfall(df, period1_cols, period2_cols, top_n, metric_filter) ==
  LET mask == IF metric_filter # Null
              THEN {i \in 1..Len(df) : df[i].category = metric_filter}
              ELSE {i \in 1..Len(df) : df[i].row_type = "line_item"}
      df_filtered == WithMovement(SelectRows(df, mask, 1), period1_cols, period2_cols, 1)
      period1_value == SumField(df_filtered, "period1_total")
      period2_value == SumField(df_filtered, "period2_total")
      top_drivers == nlargest(df_filtered, top_n)
      other_movement == OtherSum(df_filtered, top_drivers)
  IN WaterfallDict(L_Period1, L_Period2, period1_value, period2_value,
                   top_drivers, other_movement)

\* _build_waterfall_structure
_build_waterfall_structure(period1_value, period2_value, top_drivers, other_movement, metric_name) ==
  WaterfallDict(metric_name \o <<"\n">> \o L_Period1, metric_name \o <<"\n">> \o L_Period2,
                period1_value, period2_value, top_drivers, other_movement)

\* A faulty variant of CategoryFrame: the category's sign is not applied.
CategoryFrameUnsigned(df, category, sign, period1_cols, period2_cols) ==
  WithMovement(SelectRows(df, {i \in 1..Len(df) : df[i].category = category}, 1),
               period1_cols, period2_cols, 1)

\* The frame of one category with its totals, movement and signed impact.
CategoryFrame(df, category, sign, period1_cols, period2_cols) ==
  WithMovement(SelectRows(df, {i \in 1..Len(df) : df[i].category = category}, 1),
               period1_cols, period2_cols, sign)

\* Gross Profit = Revenue - COGS
_calculate_gross_profit_waterfall(df, period1_cols, period2_cols, top_n) ==
  LET revenue_df == CategoryFrame(df, "Revenue", 1, period1_cols, period2_cols)
      cogs_df == CategoryFrame(df, "Cost of Goods Sold", -1, period1_cols, period2_cols)
      period1_gp == SumField(revenue_df, "period1_total") - SumField(cogs_df, "period1_total")
      period2_gp == SumField(revenue_df, "period2_total") - SumField(cogs_df, "period2_total")
      all_drivers == revenue_df \o cogs_df
      top_drivers == nlargest(all_drivers, top_n)
      other_movement == OtherSum(all_drivers, top_drivers)
  IN _build_waterfall_structure(period1_gp, period2_gp, top_drivers, other_movement,
                                L_GrossProfit)

\* Operating Profit = Revenue - COGS - OpEx
_calculate_operating_profit_waterfall(df, period1_cols, period2_cols, top_n) ==
  LET revenue_df == CategoryFrame(df, "Revenue", 1, period1_cols, period2_cols)
      cogs_df == CategoryFrame(df, "Cost of Goods Sold", -1, period1_cols, period2_cols)
      opex_df == CategoryFrame(df, "Operating Expenses", -1, period1_cols, period2_cols)
      period1_op == SumField(revenue_df, "period1_total") - SumField(cogs_df, "period1_total")
                    - SumField(opex_df, "period1_total")
      period2_op == SumField(revenue_df, "period2_total") - SumField(cogs_df, "period2_total")
                    - SumField(opex_df, "period2_total")
      all_drivers == revenue_df \o cogs_df \o opex_df
      top_drivers == nlargest(all_drivers, top_n)
      other_movement == OtherSum(all_drivers, top_drivers)
  IN _build_waterfall_structure(period1_op, period2_op, top_drivers, other_movement,
                                L_OperatingProfit)

\* The (category, sign) pairs of the net profit formula, in the order of the
\* loop of _calculate_net_profit_waterfall.
NetProfitSigns ==
  <<[category |-> "Revenue", sign |-> 1],
    [category |-> "Cost of Goods Sold", sign |-> -1],
    [category |-> "Operating Expenses", sign |-> -1],
    [category |-> "Financial Items", sign |-> 1],
    [category |-> "Non-Operating Items", sign |-> 1],
    [category |-> "Tax", sign |-> -1]>>

\* sum(frame[field].sum() * sign for frame, sign in ... if len(frame) > 0)
RECURSIVE SignedTotal(_, _, _)
SignedTotal(frames, field, c) ==
  IF c > Len(frames) THEN 0
  ELSE SumField(frames[c], field) * NetProfitSigns[c].sign + SignedTotal(frames, field, c + 1)

\* Net Profit over all six categories. With no row in any category
\* all_drivers is an empty DataFrame without columns and
\* all_drivers['impact_on_np'] raises KeyError.
_calculate_net_profit_waterfall(df, period1_cols, period2_cols, top_n) ==
  LET frames == [c \in 1..Len(NetProfitSigns) |->
                   CategoryFrame(df, NetProfitSigns[c].category, NetProfitSigns[c].sign,
                                 period1_cols, period2_cols)]
      all_drivers == frames[1] \o frames[2] \o frames[3] \o frames[4] \o frames[5] \o frames[6]
      period1_np == SignedTotal(frames, "period1_total", 1)
      period2_np == SignedTotal(frames, "period2_total", 1)
      top_drivers == nlargest(all_drivers, top_n)
      other_movement == OtherSum(all_drivers, top_drivers)
  IN IF all_drivers = <<>> THEN [raised |-> TRUE, error |-> "KeyError"]
     ELSE _build_waterfall_structure(period1_np, period2_np, top_drivers, other_movement,
                                     L_NetProfit)

\* calculate_derived_metric
calculate_derived_metric(df, metric, period1_cols, period2_cols, top_n) ==
  IF metric = "gross_profit"
  THEN _calculate_gross_profit_waterfall(df, period1_cols, period2_cols, top_n)
  ELSE IF metric = "operating_profit"
  THEN _calculate_operating_profit_waterfall(df, period1_cols, period2_cols, top_n)
  ELSE IF metric = "net_profit"
  THEN _calculate_net_profit_waterfall(df, period1_cols, period2_cols, top_n)
  ELSE [raised |-> TRUE, error |-> "ValueError"]

\* col.endswith(date_suffix)
endswith(s, suffix) ==
  Len(s) >= Len(suffix) /\ SubSeq(s, Len(s) - Len(suffix) + 1, Len(s)) = suffix

\* series.dropna() of a column of period keys
dropna_periods(cells) == SelectSeq(cells, LAMBDA c : c # NaN)

\* The values of a list without repetition, in order of first appearance.
RECURSIVE unique(_)
unique(xs) ==
  IF xs = <<>> THEN <<>>
  ELSE LET rest == unique(SubSeq(xs, 1, Len(xs) - 1))
       IN IF \E i \in 1..Len(rest) : rest[i] = xs[Len(xs)] THEN rest
          ELSE Append(rest, xs[Len(xs)])

\* periods.extend(self.df[col].dropna().unique()) for every date column
RECURSIVE extend_periods(_, _)
extend_periods(columns, date_suffix) ==
  IF columns = <<>> THEN <<>>
  ELSE (IF endswith(columns[1].name, date_suffix)
        THEN unique(dropna_periods(columns[1].cells)) ELSE <<>>)
       \o extend_periods(Tail(columns), date_suffix)

\* calc.get_available_periods(): the table is given by its columns, each a
\* name and its cells; sorted(list(set(periods))).
get_available_periods(columns, date_suffix) ==
  SortTokens(unique(extend_periods(columns, date_suffix)))

\* A faulty variant of suggest_period_ranges: below 24 periods the split is
\* after the middle period, period1 getting the longer half.
suggest_period_ranges_upper_half(periods) ==
  IF Len(periods) < 2 THEN [period1 |-> <<>>, period2 |-> <<>>]
  ELSE IF Len(periods) >= 24
  THEN [period2 |-> SubSeq(periods, Len(periods) - 11, Len(periods)),
        period1 |-> SubSeq(periods, Len(periods) - 23, Len(periods) - 12)]
  ELSE [period1 |-> SubSeq(periods, 1, (Len(periods) + 1) \div 2),
        period2 |-> SubSeq(periods, (Len(periods) + 1) \div 2 + 1, Len(periods))]

\* calc.suggest_period_ranges(periods)
suggest_period_ranges(periods) ==
  IF Len(periods) < 2 THEN [period1 |-> <<>>, period2 |-> <<>>]
  ELSE IF Len(periods) >= 24
  THEN [period2 |-> SubSeq(periods, Len(periods) - 11, Len(periods)),
        period1 |-> SubSeq(periods, Len(periods) - 23, Len(periods) - 12)]
  ELSE [period1 |-> SubSeq(periods, 1, Len(periods) \div 2),
        period2 |-> SubSeq(periods, Len(periods) \div 2 + 1, Len(periods))]

\* ------------------------------------------------------------------------
\* Python numbers, as exact fractions
\* ------------------------------------------------------------------------

\* A float is [num, den] in lowest terms with den > 0. The binary rounding
\* error of a float operation is not represented.
RECURSIVE GCD(_, _)
GCD(a, b) == IF b = 0 THEN a ELSE GCD(b, a % b)

Float(n, d) ==
  LET g == GCD(Abs(n), Abs(d))
  IN IF d < 0 THEN [num |-> (0 - n) \div g, den |-> (0 - d) \div g]
     ELSE [num |-> n \div g, den |-> d \div g]

FloatOf(n) == [num |-> n, den |-> 1]

\* What a division by zero leaves where a number was expected:
\* ZeroDivisionError for Python numbers, inf or nan for numpy ones.
ZeroDivision == [t |-> "ZeroDivision"]

\* float('inf')
Infinity == [t |-> "inf"]

\* None
None == [t |-> "None"]

IsFloat(x) == DOMAIN x = {"num", "den"}

FAdd(x, y) == Float(x.num * y.den + y.num * x.den, x.den * y.den)
FSub(x, y) == Float(x.num * y.den - y.num * x.den, x.den * y.den)
FMul(x, y) == Float(x.num * y.num, x.den * y.den)
FDiv(x, y) == IF y.num = 0 THEN ZeroDivision ELSE Float(x.num * y.den, x.den * y.num)
FAbs(x) == [num |-> Abs(x.num), den |-> x.den]
\* a/b < c/d for positive b and d, by the integer parts and then the
\* reciprocals of the fractional parts: no product is formed.
RECURSIVE frac_less(_, _, _, _)
frac_less(a, b, c, d) ==
  IF a \div b # c \div d THEN a \div b < c \div d
  ELSE IF c % d = 0 THEN FALSE
  ELSE IF a % b = 0 THEN TRUE
  ELSE frac_less(d, c % d, b, a % b)

FLess(x, y) == frac_less(x.num, x.den, y.num, y.den)
FLeq(x, y) == ~FLess(y, x)
FZero(x) == x.num = 0

\* round(x, digits) with scale = 10 ** digits: the multiple of 1/scale
\* nearest to x, the even one of two equally near.
RoundTo(x, scale) ==
  LET lo == (x.num * scale) \div x.den
      twice_rest == 2 * (x.num * scale - lo * x.den)
  IN IF twice_rest < x.den THEN Float(lo, scale)
     ELSE IF twice_rest > x.den THEN Float(lo + 1, scale)
     ELSE IF lo % 2 = 0 THEN Float(lo, scale) ELSE Float(lo + 1, scale)

\* sum(xs) of a list of floats
RECURSIVE FSum(_)
FSum(xs) == IF xs = <<>> THEN FloatOf(0) ELSE FAdd(xs[1], FSum(Tail(xs)))

\* np.mean(xs) of a non-empty list
mean(xs) == FDiv(FSum(xs), FloatOf(Len(xs)))

\* ------------------------------------------------------------------------
\* pl_parser.py: PLParser
\* ------------------------------------------------------------------------

\* A cell of a sheet: a str, a number, or empty (NaN / None).
TextCell(s) == [t |-> "str", s |-> s]
NumberCell(v) == [t |-> "float", v |-> v]
EmptyCell == [t |-> "nan"]

\* pd.isna(val), pd.notna(val)
isna(cell) == cell.t = "nan"
notna(cell) == cell.t # "nan"

DigitChars == <<"0","1","2","3","4","5","6","7","8","9">>

IsDigit(c) == \E i \in 1..Len(DigitChars) : DigitChars[i] = c

\* int() of a text of digits; the underscores float() allows between digits
\* are passed over.
DigitValue(c) == CHOOSE d \in 0..9 : DigitChars[d + 1] = c

RECURSIVE DigitsValue(_, _)
DigitsValue(s, acc) ==
  IF s = <<>> THEN acc
  ELSE IF s[1] = "_" THEN DigitsValue(Tail(s), acc)
  ELSE DigitsValue(Tail(s), acc * 10 + DigitValue(s[1]))

RECURSIVE NatStr(_)
NatStr(n) ==
  IF n < 10 THEN <<DigitChars[n + 1]>>
  ELSE NatStr(n \div 10) \o <<DigitChars[(n % 10) + 1]>>

\* str(val): the text itself, 'nan' for an empty cell, the repr of a float
\* of integer value for a number ('100.0', '-90.0').
CellStr(cell) ==
  IF cell.t = "str" THEN cell.s
  ELSE IF cell.t = "nan" THEN <<"n","a","n">>
  ELSE (IF cell.v < 0 THEN <<"-">> ELSE <<>>) \o NatStr(Abs(cell.v)) \o <<".", "0">>

\* The integers of S in ascending order.
RECURSIVE SortedSeq(_)
SortedSeq(S) ==
  IF S = {} THEN <<>>
  ELSE LET m == CHOOSE m \in S : \A o \in S : m <= o
       IN <<m>> \o SortedSeq(S \ {m})

\* The set of the elements of a list.
Range(s) == {s[i] : i \in 1..Len(s)}

\* series.head(n)
head(s, n) == SubSeq(s, 1, Min2(n, Len(s)))

\* series.dropna()
dropna(col) == SelectSeq(col, notna)

SUBTOTAL_KEYWORDS ==
  <<<<"t","o","t","a","l">>,
    <<"s","u","b","t","o","t","a","l">>,
    <<"s","u","m">>,
    <<"g","r","o","s","s"," ","p","r","o","f","i","t">>,
    <<"o","p","e","r","a","t","i","n","g"," ","i","n","c","o","m","e">>,
    <<"e","b","i","t","d","a">>,
    <<"e","b","i","t">>,
    <<"n","e","t"," ","i","n","c","o","m","e">>,
    <<"n","e","t"," ","p","r","o","f","i","t">>,
    <<"n","e","t"," ","l","o","s","s">>,
    <<"o","p","e","r","a","t","i","n","g"," ","p","r","o","f","i","t">>,
    <<"p","r","o","f","i","t"," ","b","e","f","o","r","e"," ","t","a","x">>,
    <<"e","a","r","n","i","n","g","s">>>>

header_keywords ==
  <<<<"a","c","c","o","u","n","t">>,
    <<"d","e","s","c","r","i","p","t","i","o","n">>,
    <<"d","a","t","e">>,
    <<"a","m","o","u","n","t">>,
    <<"d","e","b","i","t">>,
    <<"c","r","e","d","i","t">>,
    <<"b","a","l","a","n","c","e">>,
    <<"r","e","v","e","n","u","e">>,
    <<"e","x","p","e","n","s","e">>,
    <<"j","a","n">>,
    <<"f","e","b">>,
    <<"m","a","r">>,
    <<"a","p","r">>,
    <<"m","a","y">>,
    <<"j","u","n">>,
    <<"j","u","l">>,
    <<"a","u","g">>,
    <<"s","e","p">>,
    <<"o","c","t">>,
    <<"n","o","v">>,
    <<"d","e","c">>>>

\* Twice the score of a row: 0.5 per text cell and 2 per non-null cell that
\* contains a header keyword.
RowScore(row) ==
  LET text_count == Cardinality({c \in 1..Len(row) : row[c].t = "str"})
      keyword_matches ==
        Cardinality({c \in 1..Len(row) :
                       notna(row[c]) /\ ContainsAny(Lower(CellStr(row[c])), header_keywords)})
  IN text_count + 4 * keyword_matches

\* A faulty variant of BestRow: a later row of equal score replaces the
\* running maximum.
RECURSIVE BestRowLatestTie(_, _, _, _)
BestRowLatestTie(raw, idx, best_row, best_score) ==
  IF idx >= Len(raw) \/ idx >= 15 THEN best_row
  ELSE LET score == RowScore(raw[idx + 1])
       IN IF score >= best_score
          THEN BestRowLatestTie(raw, idx + 1, idx, score)
          ELSE BestRowLatestTie(raw, idx + 1, best_row, best_score)

RECURSIVE BestRow(_, _, _, _)
BestRow(raw, idx, best_row, best_score) ==
  IF idx >= Len(raw) \/ idx >= 15 THEN best_row
  ELSE LET score == RowScore(raw[idx + 1])
       IN IF score > best_score
          THEN BestRow(raw, idx + 1, idx, score)
          ELSE BestRow(raw, idx + 1, best_row, best_score)

\* The first of the rows of highest score among the first 15 (row 0 when no
\* row scores above 0).
_detect_header_row(raw) == BestRow(raw, 0, 0, 0)

\* read_csv / read_excel(header=header_row, skiprows=range(header_row)):
\* the first header_row lines are skipped, then line header_row of what is
\* left gives the column names and the lines after it are the data; the
\* read fails when there is no such line.  Columns are known by position.
read_with_header(raw, header_row) ==
  IF 2 * header_row + 1 > Len(raw)
  THEN [raised |-> TRUE, error |-> "ParserError"]
  ELSE [raised |-> FALSE,
        names |-> raw[2 * header_row + 1],
        cols |-> [c \in 1..Len(raw[2 * header_row + 1]) |-> c],
        rows |-> SubSeq(raw, 2 * header_row + 2, Len(raw))]

NotAllEmpty(row) == \E c \in 1..Len(row) : notna(row[c])

\* dropna(how='all') on rows, then on columns, then reset_index(drop=True):
\* the rows left are numbered 0, 1, ... by their place in rows.
_remove_empty_rows_cols(df) ==
  LET kept_rows == SelectSeq(df.rows, NotAllEmpty)
      kept_cols == {c \in Range(df.cols) : \E r \in 1..Len(kept_rows) : notna(kept_rows[r][c])}
  IN [names |-> df.names, cols |-> SortedSeq(kept_cols), rows |-> kept_rows]

\* df[col_name]
column(df, col_name) == [r \in 1..Len(df.rows) |-> df.rows[r][col_name]]

\* The dtype of a column as read: object when it holds text, else numeric.
dtype(col) == IF \E r \in 1..Len(col) : col[r].t = "str" THEN "object" ELSE "float64"

CharAt(s, i) == IF i \in 1..Len(s) THEN s[i] ELSE ""

\* n digits at positions i .. i+n-1 of s
DigitsAt(s, i, n) == \A k \in i..(i + n - 1) : IsDigit(CharAt(s, k))

\* The month abbreviations of '%b' and of the third date pattern, lower-cased.
month_abbrs ==
  <<<<"j","a","n">>,
    <<"f","e","b">>,
    <<"m","a","r">>,
    <<"a","p","r">>,
    <<"m","a","y">>,
    <<"j","u","n">>,
    <<"j","u","l">>,
    <<"a","u","g">>,
    <<"s","e","p">>,
    <<"o","c","t">>,
    <<"n","o","v">>,
    <<"d","e","c">>>>

\* The month names of '%B', lower-cased.
month_names ==
  <<<<"j","a","n","u","a","r","y">>,
    <<"f","e","b","r","u","a","r","y">>,
    <<"m","a","r","c","h">>,
    <<"a","p","r","i","l">>,
    <<"m","a","y">>,
    <<"j","u","n","e">>,
    <<"j","u","l","y">>,
    <<"a","u","g","u","s","t">>,
    <<"s","e","p","t","e","m","b","e","r">>,
    <<"o","c","t","o","b","e","r">>,
    <<"n","o","v","e","m","b","e","r">>,
    <<"d","e","c","e","m","b","e","r">>>>

\* re.search of one of the four date_patterns in val_str
MatchesDatePattern(val_str) ==
  \/ \E i \in 1..Len(val_str) :
       DigitsAt(val_str, i, 4) /\ CharAt(val_str, i + 4) = "-" /\ DigitsAt(val_str, i + 5, 2)
  \/ \E i \in 1..Len(val_str) :
       DigitsAt(val_str, i, 2) /\ CharAt(val_str, i + 2) = "/" /\ DigitsAt(val_str, i + 3, 4)
  \/ ContainsAny(val_str, month_abbrs)
  \/ \E i \in 1..Len(val_str) : \E m \in 1..2 :
       /\ DigitsAt(val_str, i, 1) /\ CharAt(val_str, i + 1) = "/"
       /\ DigitsAt(val_str, i + 2, m) /\ CharAt(val_str, i + 2 + m) = "/"
       /\ DigitsAt(val_str, i + 3 + m, 2)

\* One of the first five values matches a date pattern.
_looks_like_dates(series) ==
  \E i \in 1..Min2(5, Len(series)) : MatchesDatePattern(Lower(CellStr(series[i])))

NoColumn == 0

RECURSIVE ClassifyFrom(_, _, _)
ClassifyFrom(df, col_idx, column_types) ==
  IF col_idx > Len(df.cols) THEN column_types
  ELSE LET col_name == df.cols[col_idx]
           sample_data == head(dropna(column(df, col_name)), 20)
           non_null == Len(dropna(column(df, col_name)))
           after ==
             IF Len(sample_data) = 0 THEN column_types
             ELSE IF dtype(column(df, col_name)) = "object"
             THEN IF column_types.account = NoColumn
                  THEN [column_types EXCEPT !.account = col_name]
                  ELSE IF _looks_like_dates(sample_data)
                       THEN [column_types EXCEPT !.dates = Append(@, col_name)]
                       ELSE [column_types EXCEPT !.metadata = Append(@, col_name)]
             ELSE IF 5 * non_null > Len(df.rows)
                  THEN [column_types EXCEPT !.values = Append(@, col_name)]
                  ELSE column_types
       IN ClassifyFrom(df, col_idx + 1, after)

\* The hints are absent ([given |-> FALSE]) or a dict with the key
\* header_row; with hints the account column is the first column and no
\* date or value column is named.
_classify_columns(df, user_hints) ==
  IF user_hints.given
  THEN IF df.cols = <<>>
       THEN [raised |-> TRUE, error |-> "IndexError"]
       ELSE [raised |-> FALSE, account |-> df.cols[1], dates |-> <<>>, values |-> <<>>,
             metadata |-> <<>>]
  ELSE LET column_types ==
             ClassifyFrom(df, 1, [raised |-> FALSE, account |-> NoColumn, dates |-> <<>>,
                                  values |-> <<>>, metadata |-> <<>>])
       IN IF column_types.account # NoColumn THEN column_types
          ELSE IF df.cols = <<>>
               THEN [raised |-> TRUE, error |-> "IndexError"]
               ELSE [column_types EXCEPT !.account = df.cols[1]]

\* dt.strftime('%Y-%m') for month number m and the four year digits
YearMonth(year, m) ==
  TextCell(year \o <<"-">> \o (IF m < 10 THEN <<"0">> ELSE <<>>) \o NatStr(m))

\* val_str is a month name or abbreviation, a space or hyphen, and a year
\* of four digits ('%b %Y', '%B %Y', '%b-%Y', '%B-%Y'), for month m.
IsMonthYear(val_str, m) ==
  \E name \in {month_abbrs[m], month_names[m]} :
    /\ Len(val_str) = Len(name) + 5
    /\ SubSeq(Lower(val_str), 1, Len(name)) = name
    /\ val_str[Len(name) + 1] \in {" ", "-"}
    /\ DigitsAt(val_str, Len(name) + 2, 4)

\* The number of days of a month of the proleptic Gregorian calendar.
days_in_month(year, month) ==
  IF month = 2
  THEN IF year % 4 = 0 /\ (year % 100 # 0 \/ year % 400 = 0) THEN 29 ELSE 28
  ELSE IF month \in {4, 6, 9, 11} THEN 30 ELSE 31

\* What pd.to_datetime(val, errors='coerce') gives for a value it cannot read.
NaT == [t |-> "NaT"]

\* val_str is an ISO date: YYYY-MM or YYYY-MM-DD with a month of 01..12 and
\* a day of that month.
IsIsoDate(val_str) ==
  /\ Len(val_str) \in {7, 10}
  /\ DigitsAt(val_str, 1, 4) /\ val_str[5] = "-" /\ DigitsAt(val_str, 6, 2)
  /\ DigitsValue(SubSeq(val_str, 6, 7), 0) \in 1..12
  /\ Len(val_str) = 10 =>
       /\ val_str[8] = "-" /\ DigitsAt(val_str, 9, 2)
       /\ DigitsValue(SubSeq(val_str, 9, 10), 0)
            \in 1..days_in_month(DigitsValue(SubSeq(val_str, 1, 4), 0),
                                 DigitsValue(SubSeq(val_str, 6, 7), 0))

\* pd.to_datetime(val, errors='coerce'), as the year (four digits) and the
\* month of the timestamp: a number is read as nanoseconds from the epoch;
\* of the texts a sheet holds here pandas reads the ISO dates and a month
\* name or abbreviation with a year; every other text here is NaT.
to_datetime(val) ==
  IF val.t = "float"
  THEN IF val.v >= 0 THEN [year |-> <<"1","9","7","0">>, month |-> 1]
       ELSE [year |-> <<"1","9","6","9">>, month |-> 12]
  ELSE IF IsIsoDate(val.s)
  THEN [year |-> SubSeq(val.s, 1, 4), month |-> DigitsValue(SubSeq(val.s, 6, 7), 0)]
  ELSE IF \E m \in 1..12 : IsMonthYear(val.s, m)
  THEN [year |-> SubSeq(val.s, Len(val.s) - 3, Len(val.s)),
        month |-> CHOOSE m \in 1..12 : IsMonthYear(val.s, m)]
  ELSE NaT

\* A match of re.search(r'(\d{4})-(\d{2})', val_str) starts at position i.
YearMonthAt(val_str, i) ==
  DigitsAt(val_str, i, 4) /\ CharAt(val_str, i + 4) = "-" /\ DigitsAt(val_str, i + 5, 2)

\* The position where the first match of the pattern starts.
FirstMatch(val_str) ==
  CHOOSE i \in 1..Len(val_str) :
    /\ YearMonthAt(val_str, i)
    /\ \A j \in 1..(i - 1) : ~YearMonthAt(val_str, j)

\* What parse_date does with the str of a value pd.to_datetime did not
\* read: the four strptime formats, then the first YYYY-MM inside the text,
\* else None.
parse_date_text(val_str) ==
  IF \E m \in 1..12 : IsMonthYear(val_str, m)
  THEN YearMonth(SubSeq(val_str, Len(val_str) - 3, Len(val_str)),
                 CHOOSE m \in 1..12 : IsMonthYear(val_str, m))
  ELSE IF \E i \in 1..Len(val_str) : YearMonthAt(val_str, i)
  THEN TextCell(SubSeq(val_str, FirstMatch(val_str), FirstMatch(val_str) + 6))
  ELSE EmptyCell

\* dt.strftime('%Y-%m') of what pd.to_datetime read, else parse_date_text
parse_date_of(val, dt) ==
  IF dt # NaT THEN YearMonth(dt.year, dt.month) ELSE parse_date_text(CellStr(val))

\* parse_date: None for an empty cell; pd.to_datetime first, then the text
\* formats and the embedded YYYY-MM.
parse_date(val) ==
  IF isna(val) THEN EmptyCell ELSE parse_date_of(val, to_datetime(val))

\* col.apply(parse_date)
_normalize_date_column(col) == [i \in 1..Len(col) |-> parse_date(col[i])]

\* ------------------------------------------------------------------------
\* PLParser._clean_numeric_column
\* ------------------------------------------------------------------------

\* The characters re.sub(r'[$€£¥,\s]', '', val_str) removes.
StrippedChars == {"$", "€", "£", "¥", ",", " ", "\t", "\n", "\r"}

remove_chars(s, chars) == SelectSeq(s, LAMBDA c : c \notin chars)

\* What float(str) gives besides a finite number.
ValueError == [t |-> "ValueError"]
FloatNaN == [t |-> "nan"]
NegInfinity == [t |-> "-inf"]

\* Digits, with single underscores between digits ('1_000').
IsDigitPart(s) ==
  /\ s # <<>>
  /\ \A i \in 1..Len(s) :
       \/ IsDigit(s[i])
       \/ s[i] = "_" /\ IsDigit(CharAt(s, i - 1)) /\ IsDigit(CharAt(s, i + 1))

RECURSIVE Pow10(_)
Pow10(n) == IF n = 0 THEN 1 ELSE 10 * Pow10(n - 1)

\* The first position of s holding one of the characters, 0 when none does.
FirstIndex(s, chars) ==
  IF \E i \in 1..Len(s) : s[i] \in chars
  THEN CHOOSE i \in 1..Len(s) : s[i] \in chars /\ \A j \in 1..(i - 1) : s[j] \notin chars
  ELSE 0

\* digits [ '.' [digits] ] or '.' digits
float_mantissa(s) ==
  LET dot == FirstIndex(s, {"."})
      int_part == IF dot = 0 THEN s ELSE SubSeq(s, 1, dot - 1)
      frac_part == IF dot = 0 THEN <<>> ELSE SubSeq(s, dot + 1, Len(s))
  IN IF /\ int_part = <<>> \/ IsDigitPart(int_part)
        /\ frac_part = <<>> \/ IsDigitPart(frac_part)
        /\ int_part # <<>> \/ frac_part # <<>>
     THEN Float(DigitsValue(int_part \o frac_part, 0),
                Pow10(Len(SelectSeq(frac_part, IsDigit))))
     ELSE ValueError

\* [ '+' | '-' ] digits after the 'e'
exponent_digits(s) == IF s # <<>> /\ s[1] \in {"+", "-"} THEN Tail(s) ELSE s

float_exponent(s) ==
  IF s # <<>> /\ s[1] = "-" THEN -DigitsValue(exponent_digits(s), 0)
  ELSE DigitsValue(exponent_digits(s), 0)

scaled(mantissa, exponent_text) ==
  IF mantissa = ValueError \/ ~IsDigitPart(exponent_digits(exponent_text)) THEN ValueError
  ELSE IF float_exponent(exponent_text) >= 0
  THEN FMul(mantissa, FloatOf(Pow10(float_exponent(exponent_text))))
  ELSE FDiv(mantissa, FloatOf(Pow10(-float_exponent(exponent_text))))

\* float() of a text without sign: 'inf', 'infinity' and 'nan' in any case,
\* or a decimal number with an optional exponent.
float_unsigned(s) ==
  IF Lower(s) \in {<<"i","n","f">>, <<"i","n","f","i","n","i","t","y">>} THEN Infinity
  ELSE IF Lower(s) = <<"n","a","n">> THEN FloatNaN
  ELSE LET e == FirstIndex(s, {"e", "E"})
       IN IF e = 0 THEN float_mantissa(s)
          ELSE scaled(float_mantissa(SubSeq(s, 1, e - 1)), SubSeq(s, e + 1, Len(s)))

negated(x) ==
  IF x = ValueError \/ x = FloatNaN THEN x
  ELSE IF x = Infinity THEN NegInfinity
  ELSE Float(-x.num, x.den)

\* float(val_str) of a text that holds no whitespace (the substitution
\* removed it): ValueError for what is no number.
float_of_str(val_str) ==
  IF val_str # <<>> /\ val_str[1] = "-" THEN negated(float_unsigned(Tail(val_str)))
  ELSE IF val_str # <<>> /\ val_str[1] = "+" THEN float_unsigned(Tail(val_str))
  ELSE float_unsigned(val_str)

\* if '(' in val_str and ')' in val_str:
\*     val_str = '-' + val_str.replace('(', '').replace(')', '')
parentheses_as_negative(val_str) ==
  IF "(" \in Range(val_str) /\ ")" \in Range(val_str)
  THEN <<"-">> \o remove_chars(val_str, {"(", ")"})
  ELSE val_str

\* A float as a cell: its integer when it has an integer value (as the
\* sheets hold them), else the fraction or the infinity; NaN is the empty
\* cell.
float_cell(x) ==
  IF x = ValueError \/ x = FloatNaN THEN EmptyCell
  ELSE IF IsFloat(x) /\ x.den = 1 THEN NumberCell(x.num)
  ELSE NumberCell(x)

\* clean_value: None for an empty cell, float(val) for a number, and for a
\* text the float of what is left after the substitution and the handling
\* of parentheses, None when that is no number.
clean_value(val) ==
  IF isna(val) THEN EmptyCell
  ELSE IF val.t = "float" THEN NumberCell(val.v)
  ELSE float_cell(float_of_str(parentheses_as_negative(remove_chars(val.s, StrippedChars))))

\* col.apply(clean_value)
_clean_numeric_column(col) == [i \in 1..Len(col) |-> clean_value(col[i])]

\* A faulty variant of _detect_subtotal_rows: the keywords are looked for in
\* the account name as written, without lower-casing.
_detect_subtotal_rows_as_written(rows, account_col) ==
  SortedSeq({rows[r].idx : r \in {r \in 1..Len(rows) :
       ContainsAny(CellStr(rows[r].cells[account_col]), SUBTOTAL_KEYWORDS)}})

\* The rows whose lower-cased str(account) contains a subtotal keyword.
_detect_subtotal_rows(rows, account_col) ==
  SortedSeq({rows[r].idx : r \in {r \in 1..Len(rows) :
       ContainsAny(Lower(CellStr(rows[r].cells[account_col])), SUBTOTAL_KEYWORDS)}})

\* The index after each occurrence of kw in s.
MatchEnds(s, kw) ==
  {i + Len(kw) : i \in {i \in 1..(Len(s) - Len(kw) + 1) : SubSeq(s, i, i + Len(kw) - 1) = kw}}

SectionKeys ==
  {"revenue", "cogs", "gross_profit", "operating_expenses", "operating_income",
   "other_income", "other_expense", "pretax_income", "tax", "net_income"}

\* re.search(SECTION_PATTERNS[section], account_name, re.IGNORECASE)
SECTION_PATTERNS(section, account_name) ==
  LET s == Lower(account_name)
  IN IF section = "revenue"
     THEN \E w \in {<<"r","e","v","e","n","u","e">>, <<"s","a","l","e","s">>, <<"i","n","c","o","m","e">>} : \E e \in MatchEnds(s, w) :
            ~Contains(SubSeq(s, e, Len(s)), <<"e","x","p","e","n","s","e">>)
     ELSE IF section = "cogs"
     THEN ContainsAny(s, <<<<"c","o","s","t"," ","o","f"," ","g","o","o","d","s"," ","s","o","l","d">>, <<"c","o","s","t"," ","o","f"," ","s","o","l","d">>, <<"c","o","g","s">>,
                           <<"c","o","s","t"," ","o","f"," ","s","a","l","e","s">>, <<"d","i","r","e","c","t"," ","c","o","s","t">>>>)
     ELSE IF section = "gross_profit"
     THEN ContainsAny(s, <<<<"g","r","o","s","s"," ","p","r","o","f","i","t">>, <<"g","r","o","s","s"," ","m","a","r","g","i","n">>, <<"g","r","o","s","s"," ","i","n","c","o","m","e">>>>)
     ELSE IF section = "operating_expenses"
     THEN ContainsAny(s, <<<<"o","p","e","r","a","t","i","n","g"," ","e","x","p","e","n","s","e">>, <<"o","p","e","x">>, <<"s","g","&","a">>,
                           <<"g","e","n","e","r","a","l"," ","a","n","d"," ","a","d","m","i","n","i","s","t","r","a","t","i","v","e">>>>)
     ELSE IF section = "operating_income"
     THEN \/ ContainsAny(s, <<<<"o","p","e","r","a","t","i","n","g"," ","i","n","c","o","m","e">>, <<"o","p","e","r","a","t","i","n","g"," ","p","r","o","f","i","t">>>>)
          \/ \E e \in MatchEnds(s, <<"e","b","i","t">>) : e <= Len(s) /\ s[e] # "d"
     ELSE IF section = "other_income"
     THEN ContainsAny(s, <<<<"o","t","h","e","r"," ","i","n","c","o","m","e">>, <<"n","o","n","-","o","p","e","r","a","t","i","n","g">>, <<"i","n","t","e","r","e","s","t"," ","i","n","c","o","m","e">>>>)
     ELSE IF section = "other_expense"
     THEN ContainsAny(s, <<<<"o","t","h","e","r"," ","e","x","p","e","n","s","e">>, <<"i","n","t","e","r","e","s","t"," ","e","x","p","e","n","s","e">>>>)
     ELSE IF section = "pretax_income"
     THEN ContainsAny(s, <<<<"i","n","c","o","m","e"," ","b","e","f","o","r","e"," ","t","a","x">>, <<"p","r","e","-","t","a","x"," ","i","n","c","o","m","e">>, <<"p","r","e","t","a","x"," ","i","n","c","o","m","e">>,
                           <<"e","b","t">>>>)
     ELSE IF section = "tax"
     THEN ContainsAny(s, <<<<"i","n","c","o","m","e"," ","t","a","x">>, <<"t","a","x"," ","e","x","p","e","n","s","e">>, <<"p","r","o","v","i","s","i","o","n"," ","f","o","r"," ","t","a","x">>>>)
     ELSE ContainsAny(s, <<<<"n","e","t"," ","i","n","c","o","m","e">>, <<"n","e","t"," ","p","r","o","f","i","t">>, <<"n","e","t"," ","l","o","s","s">>, <<"b","o","t","t","o","m"," ","l","i","n","e">>>>)

_identify_sections(rows, account_col) ==
  [section \in SectionKeys |->
     SortedSeq({rows[r].idx : r \in {r \in 1..Len(rows) :
          SECTION_PATTERNS(section, CellStr(rows[r].cells[account_col]))}})]

RECURSIVE lstrip(_)
lstrip(s) == IF s # <<>> /\ IsSpace(s[1]) THEN lstrip(Tail(s)) ELSE s

RECURSIVE rstrip(_)
rstrip(s) ==
  IF s # <<>> /\ IsSpace(s[Len(s)]) THEN rstrip(SubSeq(s, 1, Len(s) - 1)) ELSE s

\* (index, indentation level at two spaces a level, stripped name) per row
_detect_hierarchy(rows, account_col) ==
  [r \in 1..Len(rows) |->
     LET account_name == CellStr(rows[r].cells[account_col])
         indent_level == Len(account_name) - Len(lstrip(account_name))
     IN <<rows[r].idx, indent_level \div 2, rstrip(lstrip(account_name))>>]

\* df[col] - df[prev_col] for one row: empty when either cell is
MomChange(cells, col, prev_col) ==
  IF isna(cells[col]) \/ isna(cells[prev_col]) THEN EmptyCell
  ELSE NumberCell(cells[col].v - cells[prev_col].v)

\* (df[col] - df[prev_col]) / |df[prev_col]| * 100 for one row, as a fraction;
\* 0/0 is NaN, and an infinite quotient is handed to replace(..., None).
MomPct(cells, col, prev_col) ==
  IF isna(cells[col]) \/ isna(cells[prev_col]) THEN EmptyCell
  ELSE IF cells[prev_col].v = 0
  THEN IF cells[col].v = 0 THEN EmptyCell ELSE [t |-> "inf_replaced"]
  ELSE [t |-> "pct", num |-> (cells[col].v - cells[prev_col].v) * 100,
        den |-> Abs(cells[prev_col].v)]

\* The {col}_mom_change and {col}_mom_pct columns of one row, for every
\* value column but the first.
_calculate_mom_changes(cells, value_cols) ==
  [mom_change |-> [k \in 2..Len(value_cols) |->
                     MomChange(cells, value_cols[k], value_cols[k - 1])],
   mom_pct |-> [k \in 2..Len(value_cols) |->
                  MomPct(cells, value_cols[k], value_cols[k - 1])]]

\* df[df.index.isin(index)] (keep = TRUE) or df[~df.index.isin(index)]
RowsByIndex(rows, index, keep) ==
  LET kept == SortedSeq({r \in 1..Len(rows) : (rows[r].idx \in Range(index)) = keep})
  IN [k \in 1..Len(kept) |-> rows[kept[k]]]

\* Steps 8 to 10 of parse_file: the subtotal rows, the two copies of the
\* table split on them, and the row_type column.
ClassifyRows(rows, account_col) ==
  LET subtotal_rows == _detect_subtotal_rows(rows, account_col)
  IN [subtotal_rows |-> subtotal_rows,
      line_items |-> RowsByIndex(rows, subtotal_rows, FALSE),
      subtotals |-> RowsByIndex(rows, subtotal_rows, TRUE),
      row_type |-> [r \in 1..Len(rows) |->
                      IF rows[r].idx \in Range(subtotal_rows) THEN "subtotal" ELSE "line_item"]]

\* parser.parse_file(file_path, user_hints) on a file whose sheet is raw,
\* by a parser whose metadata dict is metadata.  A row of the table is
\* [idx, cells, normalized]; a row of 'data' has row_type and the
\* month-on-month columns as well.
parse_file(raw, user_hints, metadata) ==
  LET header_row ==
        IF user_hints.given THEN user_hints.header_row ELSE _detect_header_row(raw)
      metadata2 == Put(metadata, "header_row", header_row)
      reread == read_with_header(raw, header_row)
  IN IF reread.raised
     THEN [raised |-> TRUE, error |-> reread.error, metadata |-> metadata2]
     ELSE
     LET df == _remove_empty_rows_cols(reread)
         column_types == _classify_columns(df, user_hints)
     IN IF column_types.raised
        THEN [raised |-> TRUE, error |-> column_types.error, metadata |-> metadata2]
        ELSE
        LET account_col == column_types.account
            rows == [r \in 1..Len(df.rows) |->
                       [idx |-> r - 1,
                        cells |-> [c \in 1..Len(df.rows[r]) |->
                                     IF c \in Range(column_types.values)
                                     THEN clean_value(df.rows[r][c])
                                     ELSE df.rows[r][c]],
                        normalized |-> [c \in Range(column_types.dates) |->
                                          parse_date(df.rows[r][c])]]]
            classified == ClassifyRows(rows, account_col)
            with_mom == column_types.dates # <<>> /\ column_types.values # <<>>
            data == [r \in 1..Len(rows) |->
                       [idx |-> rows[r].idx,
                        cells |-> rows[r].cells,
                        normalized |-> rows[r].normalized,
                        row_type |-> classified.row_type[r],
                        mom |-> _calculate_mom_changes(
                                  rows[r].cells,
                                  IF with_mom THEN column_types.values ELSE <<>>)]]
            metadata8 ==
              Put(Put(Put(Put(metadata2,
                  "columns", [account |-> column_types.account,
                              dates |-> column_types.dates,
                              values |-> column_types.values,
                              metadata |-> column_types.metadata]),
                  "subtotal_rows", classified.subtotal_rows),
                  "sections", _identify_sections(rows, account_col)),
                  "hierarchy", _detect_hierarchy(rows, account_col))
        IN [raised |-> FALSE,
            data |-> [names |-> df.names, cols |-> df.cols, rows |-> data],
            line_items |-> classified.line_items,
            subtotals |-> classified.subtotals,
            metadata |-> metadata8]

\* ------------------------------------------------------------------------
\* Python dicts that are read in insertion order
\* ------------------------------------------------------------------------

\* The keys of a dict filled by d[k] = ... for k in keys, in insertion
\* order: each key where it first occurs.
RECURSIVE dict_keys(_)
dict_keys(keys) ==
  IF keys = <<>> THEN <<>>
  ELSE LET before == dict_keys(SubSeq(keys, 1, Len(keys) - 1))
           k == keys[Len(keys)]
       IN IF \E i \in 1..Len(before) : before[i] = k THEN before
          ELSE Append(before, k)

\* list(d.values()) of a dict d whose keys were inserted in key_order
dict_values(d, key_order) ==
  SubSeq([i \in 1..Len(key_order) |-> d[key_order[i]]], 1, Len(key_order))

\* dict(zip(keys, values)): as many pairs as the shorter list has, a later
\* pair replacing an earlier one with the same key.
dict_zip(keys, values) ==
  LET n == Min2(Len(keys), Len(values))
  IN [k \in {keys[i] : i \in 1..n} |->
        values[CHOOSE i \in 1..n : keys[i] = k /\ \A j \in (i + 1)..n : keys[j] # k]]

\* ------------------------------------------------------------------------
\* startup_metrics.py: StartupMetricsCalculator
\* ------------------------------------------------------------------------

revenue_keywords ==
  <<
    <<"r","e","v","e","n","u","e">>,
    <<"s","a","l","e","s">>,
    <<"i","n","c","o","m","e">>,
    <<"s","u","b","s","c","r","i","p","t","i","o","n">>,
    <<"r","e","c","u","r","r","i","n","g">>,
    <<"a","r","r">>,
    <<"m","r","r">>,
    <<"s","e","r","v","i","c","e","s"," ","r","e","v","e","n","u","e">>
  >>

\* Expense-related terms that rule a revenue account out.
exclude_keywords ==
  <<
    <<"e","x","p","e","n","s","e">>,
    <<"c","o","s","t">>,
    <<"c","o","g","s">>
  >>

expense_keywords ==
  <<
    <<"e","x","p","e","n","s","e">>,
    <<"c","o","s","t">>,
    <<"s","a","l","a","r","i","e","s">>,
    <<"w","a","g","e","s">>,
    <<"p","a","y","r","o","l","l">>,
    <<"m","a","r","k","e","t","i","n","g">>,
    <<"a","d","v","e","r","t","i","s","i","n","g">>,
    <<"r","e","n","t">>,
    <<"s","o","f","t","w","a","r","e">>,
    <<"c","o","n","s","u","l","t","i","n","g">>,
    <<"f","e","e","s">>,
    <<"d","e","p","r","e","c","i","a","t","i","o","n">>,
    <<"a","m","o","r","t","i","z","a","t","i","o","n">>,
    <<"i","n","t","e","r","e","s","t">>,
    <<"t","a","x">>,
    <<"u","t","i","l","i","t","i","e","s">>,
    <<"t","r","a","v","e","l">>,
    <<"i","n","s","u","r","a","n","c","e">>,
    <<"b","e","n","e","f","i","t","s">>,
    <<"h","o","s","t","i","n","g">>,
    <<"c","l","o","u","d">>,
    <<"a","w","s">>,
    <<"e","n","g","i","n","e","e","r","i","n","g">>,
    <<"r","&","d">>,
    <<"r","e","s","e","a","r","c","h">>,
    <<"d","e","v","e","l","o","p","m","e","n","t">>
  >>

_is_revenue_account(account) ==
  LET account_lower == Lower(account)
      has_revenue == ContainsAny(account_lower, revenue_keywords)
      has_exclude == ContainsAny(account_lower, exclude_keywords)
  IN has_revenue /\ ~has_exclude

_is_expense_account(account) ==
  LET account_lower == Lower(account)
  IN ContainsAny(account_lower, expense_keywords)

\* The account cells of the tables the calculator is given.
AccountPool ==
  <<TextCell(<<"S","a","l","e","s"," ","R","e","v","e","n","u","e">>),
    TextCell(<<"I","n","t","e","r","e","s","t"," ","I","n","c","o","m","e">>),
    TextCell(<<"R","e","n","t","a","l"," ","I","n","c","o","m","e">>),
    TextCell(<<"C","o","s","t"," ","o","f"," ","R","e","v","e","n","u","e">>),
    TextCell(<<"I","n","c","o","m","e"," ","T","a","x"," ","E","x","p","e","n","s","e">>),
    TextCell(<<"R","e","n","t">>),
    TextCell(<<"W","a","r","r","a","n","t","y">>),
    TextCell(<<"M","i","s","c">>),
    TextCell(<<"S","u","b","s","c","r","i","p","t","i","o","n">>),
    EmptyCell>>

\* Both heuristics are pure functions of the account name: their values for
\* every account cell of the model, computed once on str(cell).lower().
AccountKinds ==
  {<<AccountPool[i],
     [revenue |-> _is_revenue_account(Lower(CellStr(AccountPool[i]))),
      expense |-> _is_expense_account(Lower(CellStr(AccountPool[i])))]>> :
     i \in 1..Len(AccountPool)}

account_kind(cell) == (CHOOSE p \in AccountKinds : p[1] = cell)[2]

\* A faulty variant of AddRow: a row that matches both heuristics is added
\* to both totals.
AddRowToBoth(totals, row, period) ==
  LET kind == account_kind(row.account)
      value == row.vals[period]
  IN IF isna(value) THEN totals
     ELSE [revenue |-> totals.revenue
                       + (IF kind.revenue THEN Abs(value.v) ELSE 0),
           expenses |-> totals.expenses
                        + (IF kind.expense THEN Abs(value.v) ELSE 0)]

\* One pass of the inner loop of _calculate_aggregates: an empty cell is
\* skipped; |value| goes to revenue if the account is a revenue account,
\* else to expenses if it is an expense account.  A row is
\* [account |-> cell, vals |-> period -> cell].
AddRow(totals, row, period) ==
  LET kind == account_kind(row.account)
      value == row.vals[period]
  IN IF isna(value) THEN totals
     ELSE IF kind.revenue
     THEN [totals EXCEPT !.revenue = @ + Abs(value.v)]
     ELSE IF kind.expense
     THEN [totals EXCEPT !.expenses = @ + Abs(value.v)]
     ELSE totals

RECURSIVE PeriodTotals(_, _, _, _)
PeriodTotals(df, period, i, totals) ==
  IF i > Len(df) THEN totals
  ELSE PeriodTotals(df, period, i + 1, AddRow(totals, df[i], period))

\* calc._calculate_aggregates(): {} without value columns, else the three
\* per-period dicts and the sorted period list. key_order is the insertion
\* order of the keys of the three dicts: the value columns as the loop
\* visits them.
_calculate_aggregates(df, value_columns) ==
  IF value_columns = <<>> THEN EmptyDict
  ELSE LET totals == [period \in Range(value_columns) |->
                        PeriodTotals(df, period, 1, [revenue |-> 0, expenses |-> 0])]
       IN [revenue_by_period |-> [period \in Range(value_columns) |-> totals[period].revenue],
           expenses_by_period |-> [period \in Range(value_columns) |-> totals[period].expenses],
           net_income_by_period |-> [period \in Range(value_columns) |->
                                       totals[period].revenue - totals[period].expenses],
           periods |-> SortTokens(value_columns),
           key_order |-> dict_keys(value_columns)]

\* ------------------------------------------------------------------------
\* StartupMetricsCalculator._calculate_burn_rate
\* ------------------------------------------------------------------------

\* A faulty variant of burn_rate_trend: with exactly three periods the
\* earlier average is the latest net burn.
burn_rate_trend_from_latest(net_burns) ==
  IF Len(net_burns) >= 3
  THEN LET n == Len(net_burns)
           recent_avg == mean(SubSeq(net_burns, n - 2, n))
           earlier_avg == IF n > 3 THEN mean(SubSeq(net_burns, 1, n - 3))
                          ELSE net_burns[n]
       IN [burn_rate_trend |->
             IF ~FZero(earlier_avg)
             THEN FMul(FDiv(FSub(recent_avg, earlier_avg), FAbs(earlier_avg)), FloatOf(100))
             ELSE FloatOf(0),
           burn_rate_trend_direction |->
             IF FLess(earlier_avg, recent_avg) THEN "increasing" ELSE "decreasing"]
  ELSE [burn_rate_trend |-> FloatOf(0), burn_rate_trend_direction |-> "stable"]

\* The burn rate trend over the list of net burns: fewer than three periods
\* are 'stable'; else the mean of the last three against the mean of those
\* before them (against the first when there are exactly three).
burn_rate_trend(net_burns) ==
  IF Len(net_burns) >= 3
  THEN LET n == Len(net_burns)
           recent_avg == mean(SubSeq(net_burns, n - 2, n))
           earlier_avg == IF n > 3 THEN mean(SubSeq(net_burns, 1, n - 3))
                          ELSE net_burns[1]
       IN [burn_rate_trend |->
             IF ~FZero(earlier_avg)
             THEN FMul(FDiv(FSub(recent_avg, earlier_avg), FAbs(earlier_avg)), FloatOf(100))
             ELSE FloatOf(0),
           burn_rate_trend_direction |->
             IF FLess(earlier_avg, recent_avg) THEN "increasing" ELSE "decreasing"]
  ELSE [burn_rate_trend |-> FloatOf(0), burn_rate_trend_direction |-> "stable"]

\* net_burns = [expenses[i] - revenues[i] for i in range(len(expenses))]
net_burn_list(expenses, revenues) ==
  SubSeq([i \in 1..Len(expenses) |-> FloatOf(expenses[i] - revenues[i])], 1, Len(expenses))

\* The dict _calculate_burn_rate fills, trend being burn_rate_trend(net_burns).
burn_metrics(aggregates, expenses, net_burns, trend) ==
  [gross_burn_by_period |-> aggregates.expenses_by_period,
   gross_burn_avg |-> mean(SubSeq([i \in 1..Len(expenses) |-> FloatOf(expenses[i])],
                                  1, Len(expenses))),
   gross_burn_latest |-> FloatOf(expenses[Len(expenses)]),
   net_burn_by_period |-> dict_zip(aggregates.periods, net_burns),
   net_burn_avg |-> mean(net_burns),
   net_burn_latest |-> net_burns[Len(net_burns)],
   burn_rate_trend |-> trend.burn_rate_trend,
   burn_rate_trend_direction |-> trend.burn_rate_trend_direction]

burn_from_net(aggregates, expenses, net_burns) ==
  burn_metrics(aggregates, expenses, net_burns, burn_rate_trend(net_burns))

burn_from_lists(aggregates, expenses, revenues) ==
  IF expenses = <<>> THEN EmptyDict
  ELSE burn_from_net(aggregates, expenses, net_burn_list(expenses, revenues))

\* calc._calculate_burn_rate(aggregates): {} when there are no aggregates.
_calculate_burn_rate(aggregates) ==
  IF aggregates = EmptyDict THEN EmptyDict
  ELSE burn_from_lists(aggregates,
                       dict_values(aggregates.expenses_by_period, aggregates.key_order),
                       dict_values(aggregates.revenue_by_period, aggregates.key_order))

\* ------------------------------------------------------------------------
\* StartupMetricsCalculator._calculate_runway
\* ------------------------------------------------------------------------

\* A faulty variant of runway_band: a runway of exactly 6, 12 or 18 months
\* falls into the band below.
runway_band_inclusive(months_remaining) ==
  IF FLeq(months_remaining, FloatOf(6))
  THEN [status |-> "critical", urgency |-> "high"]
  ELSE IF FLeq(months_remaining, FloatOf(12))
  THEN [status |-> "concerning", urgency |-> "medium"]
  ELSE IF FLeq(months_remaining, FloatOf(18))
  THEN [status |-> "comfortable", urgency |-> "low"]
  ELSE [status |-> "strong", urgency |-> "none"]

\* The status and urgency of a runway of months_remaining months.
runway_band(months_remaining) ==
  IF FLess(months_remaining, FloatOf(6))
  THEN [status |-> "critical", urgency |-> "high"]
  ELSE IF FLess(months_remaining, FloatOf(12))
  THEN [status |-> "concerning", urgency |-> "medium"]
  ELSE IF FLess(months_remaining, FloatOf(18))
  THEN [status |-> "comfortable", urgency |-> "low"]
  ELSE [status |-> "strong", urgency |-> "none"]

\* int(x): the integer part, rounded toward zero
int(x) == IF x.num >= 0 THEN x.num \div x.den ELSE 0 - ((0 - x.num) \div x.den)

\* today + relativedelta(months=months): the month moved, the day cut to
\* the length of the new month; ValueError outside the years 1 to 9999 of
\* datetime.
add_months(today, months) ==
  LET index == today.year * 12 + (today.month - 1) + months
      year == index \div 12
      month == (index % 12) + 1
  IN IF year < 1 \/ year > 9999 THEN [raised |-> TRUE, error |-> "ValueError"]
     ELSE [raised |-> FALSE, year |-> year, month |-> month,
           day |-> Min2(today.day, days_in_month(year, month))]

\* The else branch of _calculate_runway once zero_date is known; zero_date
\* stands for its '%Y-%m-%d' text.
runway_burning(cash_balance, months_remaining, zero_date) ==
  [months_remaining |-> RoundTo(months_remaining, 10),
   zero_cash_date |-> [year |-> zero_date.year, month |-> zero_date.month,
                       day |-> zero_date.day],
   status |-> runway_band(months_remaining).status,
   urgency |-> runway_band(months_remaining).urgency,
   cash_balance |-> cash_balance]

runway_until(cash_balance, months_remaining, zero_date) ==
  IF zero_date.raised THEN zero_date
  ELSE runway_burning(cash_balance, months_remaining, zero_date)

runway_for(cash_balance, months_remaining, today) ==
  runway_until(cash_balance, months_remaining, add_months(today, int(months_remaining)))

\* calc._calculate_runway(cash_balance, avg_net_burn); today is what
\* datetime.now() returns during the call.
_calculate_runway(cash_balance, avg_net_burn, today) ==
  IF FLeq(avg_net_burn, FloatOf(0))
  THEN [months_remaining |-> Infinity,
        zero_cash_date |-> None,
        status |-> "profitable",
        urgency |-> "none",
        cash_balance |-> cash_balance]
  ELSE runway_for(cash_balance, FDiv(cash_balance, avg_net_burn), today)

\* ------------------------------------------------------------------------
\* StartupMetricsCalculator._calculate_growth_metrics
\* ------------------------------------------------------------------------

\* ((current - previous) / abs(previous)) * 100, and 0 for a previous of 0
growth_pct(current, previous) ==
  IF previous # 0
  THEN FMul(FDiv(FloatOf(current - previous), FloatOf(Abs(previous))), FloatOf(100))
  ELSE FloatOf(0)

\* A faulty variant of mom_growth_list: every period is compared with the first.
mom_growth_from_first(revenues) ==
  SubSeq([i \in 1..(Len(revenues) - 1) |-> growth_pct(revenues[i + 1], revenues[1])],
         1, Len(revenues) - 1)

\* mom_growth: one value per pair of consecutive revenues
mom_growth_list(revenues) ==
  SubSeq([i \in 1..(Len(revenues) - 1) |-> growth_pct(revenues[i + 1], revenues[i])],
         1, Len(revenues) - 1)

\* A faulty variant of cmgr: the first revenue is not checked before the
\* division.
cmgr_unguarded(revenues) ==
  IF Len(revenues) >= 3
  THEN [ratio |-> FDiv(FloatOf(revenues[Len(revenues)]), FloatOf(revenues[1])),
        n_periods |-> Len(revenues) - 1]
  ELSE FloatOf(0)

\* (((last / first) ** (1 / n_periods)) - 1) * 100, kept as its two
\* arguments: the root is irrational in general.
cmgr(revenues) ==
  IF Len(revenues) >= 3 /\ revenues[1] > 0
  THEN [ratio |-> FDiv(FloatOf(revenues[Len(revenues)]), FloatOf(revenues[1])),
        n_periods |-> Len(revenues) - 1]
  ELSE FloatOf(0)

\* The dict _calculate_growth_metrics fills, mom_growth being
\* mom_growth_list(revenues).
growth_metrics(revenues, periods, mom_growth) ==
  [mom_growth_by_period |-> dict_zip(Tail(periods), mom_growth),
   mom_growth_avg |-> mean(mom_growth),
   mom_growth_latest |-> mom_growth[Len(mom_growth)],
   overall_growth |-> growth_pct(revenues[Len(revenues)], revenues[1]),
   cmgr |-> cmgr(revenues),
   growth_trend |->
     IF Len(mom_growth) >= 3
     THEN IF FLess(mean(mom_growth),
                   mean(SubSeq(mom_growth, Len(mom_growth) - 2, Len(mom_growth))))
          THEN "accelerating" ELSE "decelerating"
     ELSE "stable"]

growth_from_revenues(revenues, periods) ==
  IF Len(revenues) < 2 THEN EmptyDict
  ELSE growth_metrics(revenues, periods, mom_growth_list(revenues))

\* calc._calculate_growth_metrics(aggregates): {} below two periods.
_calculate_growth_metrics(aggregates) ==
  IF aggregates = EmptyDict THEN EmptyDict
  ELSE growth_from_revenues(
         dict_values(aggregates.revenue_by_period, aggregates.key_order),
         aggregates.periods)

\* ------------------------------------------------------------------------
\* StartupMetricsCalculator._identify_expense_drivers
\* ------------------------------------------------------------------------

\* abs(float(val)) of a cell of the latest or the previous period, after
\* "if pd.isna(val): val = 0".
amount_or_zero(cell) ==
  IF isna(cell) THEN FloatOf(0) ELSE FloatOf(Abs(cell.v))

\* The entry expense_data gets for a row with these two amounts.
expense_entry(account, latest_val, prev_val) ==
  [account |-> account,
   latest_amount |-> latest_val,
   previous_amount |-> prev_val,
   change_dollar |-> FSub(latest_val, prev_val),
   change_percent |->
     IF ~FZero(prev_val)
     THEN FMul(FDiv(FSub(latest_val, prev_val), prev_val), FloatOf(100))
     ELSE FloatOf(0)]

\* expense_data: one entry per row whose account is an expense account, in
\* row order.
RECURSIVE expense_data(_, _, _, _)
expense_data(df, latest_period, prev_period, i) ==
  IF i > Len(df) THEN <<>>
  ELSE IF ~account_kind(df[i].account).expense
  THEN expense_data(df, latest_period, prev_period, i + 1)
  ELSE <<expense_entry(CellStr(df[i].account),
                       amount_or_zero(df[i].vals[latest_period]),
                       amount_or_zero(df[i].vals[prev_period]))>>
       \o expense_data(df, latest_period, prev_period, i + 1)

\* sorted(entries, key=lambda x: x[key], reverse=True): descending, entries
\* with equal keys in their original order.
RECURSIVE insert_desc(_, _, _)
insert_desc(sorted, e, key) ==
  IF sorted = <<>> THEN <<e>>
  ELSE IF FLess(sorted[1][key], e[key]) THEN <<e>> \o sorted
  ELSE <<sorted[1]>> \o insert_desc(Tail(sorted), e, key)

RECURSIVE sorted_desc(_, _)
sorted_desc(entries, key) ==
  IF entries = <<>> THEN <<>>
  ELSE insert_desc(sorted_desc(SubSeq(entries, 1, Len(entries) - 1), key),
                   entries[Len(entries)], key)

\* [e for e in entries if e[key] > bound]
RECURSIVE entries_above(_, _, _)
entries_above(entries, key, bound) ==
  IF entries = <<>> THEN <<>>
  ELSE IF FLess(FloatOf(bound), entries[1][key])
  THEN <<entries[1]>> \o entries_above(Tail(entries), key, bound)
  ELSE entries_above(Tail(entries), key, bound)

drivers_of(entries) ==
  [top_expenses |-> head(sorted_desc(entries, "latest_amount"), 5),
   fastest_growing |->
     head(sorted_desc(entries_above(entries, "change_percent", 5), "change_percent"), 5),
   largest_increases |->
     head(sorted_desc(entries_above(entries, "change_dollar", 0), "change_dollar"), 5)]

\* calc._identify_expense_drivers(): the latest value column against the
\* one before it; three empty lists below two value columns.
_identify_expense_drivers(df, value_columns) ==
  IF Len(value_columns) < 2
  THEN [top_expenses |-> <<>>, fastest_growing |-> <<>>, largest_increases |-> <<>>]
  ELSE drivers_of(expense_data(df, value_columns[Len(value_columns)],
                               value_columns[Len(value_columns) - 1], 1))

\* ------------------------------------------------------------------------
\* StartupMetricsCalculator._calculate_cash_efficiency
\* ------------------------------------------------------------------------

\* The rating of a burn multiple; 'unknown' for one that is missing, None
\* or 0.
efficiency_rating(efficiency) ==
  IF "burn_multiple" \notin DOMAIN efficiency THEN "unknown"
  ELSE IF ~IsFloat(efficiency.burn_multiple) THEN "unknown"
  ELSE IF FZero(efficiency.burn_multiple) THEN "unknown"
  ELSE IF FLess(efficiency.burn_multiple, Float(3, 2)) THEN "excellent"
  ELSE IF FLess(efficiency.burn_multiple, Float(5, 2)) THEN "good"
  ELSE IF FLess(efficiency.burn_multiple, FloatOf(4)) THEN "average"
  ELSE "poor"

\* efficiency['revenue_per_dollar_spent']
revenue_per_dollar_spent(latest_revenue, latest_expenses) ==
  IF latest_expenses > 0
  THEN RoundTo(FDiv(FloatOf(latest_revenue), FloatOf(latest_expenses)), 100)
  ELSE FloatOf(0)

\* efficiency['burn_multiple'] when avg_burn > 0
burn_multiple(latest_revenue, avg_burn) ==
  IF latest_revenue * 12 > 0
  THEN RoundTo(FDiv(FMul(avg_burn, FloatOf(12)), FloatOf(latest_revenue * 12)), 100)
  ELSE None

\* The dict before the rating is added: burn_multiple is set only for a
\* positive average net burn.
efficiency_ratios(latest_revenue, latest_expenses, avg_burn) ==
  IF FLess(FloatOf(0), avg_burn)
  THEN [burn_multiple |-> burn_multiple(latest_revenue, avg_burn),
        revenue_per_dollar_spent |-> revenue_per_dollar_spent(latest_revenue, latest_expenses)]
  ELSE [revenue_per_dollar_spent |-> revenue_per_dollar_spent(latest_revenue, latest_expenses)]

with_rating(efficiency) ==
  [k \in DOMAIN efficiency \cup {"efficiency_rating"} |->
     IF k = "efficiency_rating" THEN efficiency_rating(efficiency) ELSE efficiency[k]]

\* calc._calculate_cash_efficiency(aggregates, burn), called with
\* aggregates that have a revenue_by_period.
_calculate_cash_efficiency(aggregates, burn) ==
  with_rating(
    efficiency_ratios(
      aggregates.revenue_by_period[aggregates.key_order[Len(aggregates.key_order)]],
      aggregates.expenses_by_period[aggregates.key_order[Len(aggregates.key_order)]],
      IF burn = EmptyDict THEN FloatOf(0) ELSE burn.net_burn_avg))

\* ------------------------------------------------------------------------
\* StartupMetricsCalculator._generate_key_insights
\* ------------------------------------------------------------------------

\* f'{x:.1f}': one decimal, 'inf' for infinity.
format_1f(x) ==
  IF x = Infinity THEN <<"i","n","f">>
  ELSE LET tenths == RoundTo(FAbs(x), 10).num * (10 \div RoundTo(FAbs(x), 10).den)
       IN (IF x.num < 0 THEN <<"-">> ELSE <<>>)
          \o NatStr(tenths \div 10) \o <<".">> \o NatStr(tenths % 10)

\* str(x) of a float that round(x, 2) returned: the integer part and one or
\* two decimals.
format_repr2(x) ==
  LET hundredths == x.num * (100 \div x.den)
  IN NatStr(hundredths \div 100) \o <<".">> \o NatStr((hundredths % 100) \div 10)
     \o (IF hundredths % 10 = 0 THEN <<>> ELSE NatStr(hundredths % 10))

insight(type, category, message, priority) ==
  [type |-> type, category |-> category, message |-> message, priority |-> priority]

\* x < bound for a months_remaining that may be infinite
months_below(months, bound) == months # Infinity /\ FLess(months, FloatOf(bound))

\* The runway insight, if any, for a months_remaining that is not 0.
runway_insight_for(months) ==
  IF months_below(months, 6)
  THEN <<insight("warning", "runway",
                 <<"C","r","i","t","i","c","a","l",":"," ","O","n","l","y"," ">> \o format_1f(months)
                   \o <<" ","m","o","n","t","h","s"," ","o","f"," ","r","u","n","w","a","y"," ","r","e","m","a","i","n","i","n","g","."," ","C","o","n","s","i","d","e","r"," ","f","u","n","d","r","a","i","s","i","n","g"," ","i","m","m","e","d","i","a","t","e","l","y",".">>,
                 "high")>>
  ELSE IF months_below(months, 12)
  THEN <<insight("caution", "runway",
                 <<"Y","o","u"," ","h","a","v","e"," ">> \o format_1f(months)
                   \o <<" ","m","o","n","t","h","s"," ","o","f"," ","r","u","n","w","a","y","."," ","S","t","a","r","t"," ","p","r","e","p","a","r","i","n","g"," ","f","o","r"," ","f","u","n","d","r","a","i","s","i","n","g",".">>,
                 "medium")>>
  ELSE IF ~months_below(months, 18)
  THEN <<insight("positive", "runway",
                 <<"S","t","r","o","n","g"," ","p","o","s","i","t","i","o","n"," ","w","i","t","h"," ">> \o format_1f(months) \o <<" ","m","o","n","t","h","s"," ","o","f"," ","r","u","n","w","a","y",".">>,
                 "low")>>
  ELSE <<>>

runway_insights(runway) ==
  IF runway = None THEN <<>>
  ELSE IF runway.months_remaining # Infinity /\ FZero(runway.months_remaining) THEN <<>>
  ELSE runway_insight_for(runway.months_remaining)

burn_insights(burn) ==
  IF burn # EmptyDict /\ burn.burn_rate_trend_direction = "increasing"
  THEN <<insight("warning", "burn",
                 <<"B","u","r","n"," ","r","a","t","e"," ","i","s"," ","i","n","c","r","e","a","s","i","n","g"," ","(">> \o format_1f(FAbs(burn.burn_rate_trend))
                   \o <<"%"," ","h","i","g","h","e","r"," ","t","h","a","n"," ","e","a","r","l","i","e","r"," ","p","e","r","i","o","d","s",")",".">>,
                 "high")>>
  ELSE <<>>

growth_insights(growth) ==
  IF growth = EmptyDict THEN <<>>
  ELSE IF FLess(FloatOf(10), growth.mom_growth_latest)
  THEN <<insight("positive", "growth",
                 <<"S","t","r","o","n","g"," ","r","e","v","e","n","u","e"," ","g","r","o","w","t","h"," ","o","f"," ">> \o format_1f(growth.mom_growth_latest)
                   \o <<"%"," ","l","a","s","t"," ","m","o","n","t","h",".">>,
                 "medium")>>
  ELSE IF FLess(growth.mom_growth_latest, FloatOf(0))
  THEN <<insight("warning", "growth",
                 <<"R","e","v","e","n","u","e"," ","d","e","c","l","i","n","e","d"," ">> \o format_1f(FAbs(growth.mom_growth_latest))
                   \o <<"%"," ","l","a","s","t"," ","m","o","n","t","h",".">>,
                 "high")>>
  ELSE <<>>

efficiency_insights(efficiency) ==
  IF efficiency = None THEN <<>>
  ELSE IF efficiency.efficiency_rating = "excellent"
  THEN <<insight("positive", "efficiency",
                 <<"E","x","c","e","l","l","e","n","t"," ","c","a","s","h"," ","e","f","f","i","c","i","e","n","c","y"," ","w","i","t","h"," ">> \o format_repr2(efficiency.burn_multiple)
                   \o <<"x"," ","b","u","r","n"," ","m","u","l","t","i","p","l","e",".">>,
                 "low")>>
  ELSE IF efficiency.efficiency_rating = "poor"
  THEN <<insight("caution", "efficiency",
                 <<"H","i","g","h"," ","b","u","r","n"," ","m","u","l","t","i","p","l","e"," ","(">> \o format_repr2(efficiency.burn_multiple)
                   \o <<"x",")"," ","i","n","d","i","c","a","t","e","s"," ","i","n","e","f","f","i","c","i","e","n","t"," ","g","r","o","w","t","h",".">>,
                 "medium")>>
  ELSE <<>>

\* priority_order
priority_order(priority) ==
  IF priority = "high" THEN 0 ELSE IF priority = "medium" THEN 1
  ELSE IF priority = "low" THEN 2 ELSE 3

\* [x for x in insights if priority_order[x['priority']] == rank]
with_priority(insights, rank) ==
  SelectSeq(insights, LAMBDA x : priority_order(x.priority) = rank)

\* calc._generate_key_insights(metrics): the insights in the order runway,
\* burn, growth, efficiency, then sorted by priority, equal priorities
\* keeping that order.
_generate_key_insights(runway, burn, growth, efficiency) ==
  LET insights == runway_insights(runway) \o burn_insights(burn)
                    \o growth_insights(growth) \o efficiency_insights(efficiency)
  IN with_priority(insights, 0) \o with_priority(insights, 1)
       \o with_priority(insights, 2) \o with_priority(insights, 3)

\* ------------------------------------------------------------------------
\* StartupMetricsCalculator.calculate_all_metrics
\* ------------------------------------------------------------------------

\* bool(x) of an Optional number: False for None and for 0.
truthy(x) == x # None /\ ~FZero(x)

\* metrics['runway']: the runway dict when a cash balance is given and
\* burn.get('net_burn_avg') is truthy, else None.
runway_of(cash_balance, burn, today) ==
  IF cash_balance # None /\ truthy(IF burn = EmptyDict THEN None ELSE burn.net_burn_avg)
  THEN _calculate_runway(cash_balance, burn.net_burn_avg, today)
  ELSE None

\* metrics['efficiency']: None without a revenue_by_period.
efficiency_of(aggregates, burn) ==
  IF aggregates = EmptyDict THEN None
  ELSE _calculate_cash_efficiency(aggregates, burn)

\* The dict calculate_all_metrics returns; a ValueError of _calculate_runway
\* goes to the caller.
all_metrics(aggregates, burn, runway, growth, drivers, efficiency) ==
  IF runway # None /\ "raised" \in DOMAIN runway
  THEN [raised |-> TRUE, error |-> runway.error]
  ELSE [raised |-> FALSE,
        aggregates |-> aggregates,
        burn_rate |-> burn,
        runway |-> runway,
        growth |-> growth,
        expense_drivers |-> drivers,
        efficiency |-> efficiency,
        insights |-> _generate_key_insights(runway, burn, growth, efficiency)]

metrics_from(df, value_columns, cash_balance, today, aggregates, burn) ==
  all_metrics(aggregates, burn,
              runway_of(cash_balance, burn, today),
              _calculate_growth_metrics(aggregates),
              _identify_expense_drivers(df, value_columns),
              efficiency_of(aggregates, burn))

metrics_from_aggregates(df, value_columns, cash_balance, today, aggregates) ==
  metrics_from(df, value_columns, cash_balance, today, aggregates,
               _calculate_burn_rate(aggregates))

\* calc.calculate_all_metrics(cash_balance); today is what datetime.now()
\* returns during the call.
calculate_all_metrics(df, value_columns, cash_balance, today) ==
  metrics_from_aggregates(df, value_columns, cash_balance, today,
                          _calculate_aggregates(df, value_columns))

\* ------------------------------------------------------------------------
\* State
\* ------------------------------------------------------------------------

VARIABLES
  m_df,             \* AccountMapper: the table handed to batch_categorize_dataframe
  m_ai,             \* AccountMapper: the answer of the AI collaborator
  m_out,            \* AccountMapper: the outcome of the last call
  w_df,             \* WaterfallCalculator: self.df
  w_call,           \* WaterfallCalculator: the last call and its arguments
  w_out,            \* WaterfallCalculator: what the last call returned
  p_file,           \* PLParser: the sheet of the file at file_path
  p_metadata,       \* PLParser: self.metadata
  p_out,            \* PLParser: the last call and what it returned
  p_calls,          \* PLParser: the number of parse_file calls made
  s_df,             \* StartupMetricsCalculator: self.df
  s_value_columns,  \* StartupMetricsCalculator: self.value_columns
  s_out             \* StartupMetricsCalculator: the last call and what it returned

mapperVars == <<m_df, m_ai, m_out>>
waterfallVars == <<w_df, w_call, w_out>>
parserVars == <<p_file, p_metadata, p_out, p_calls>>
metricsVars == <<s_df, s_value_columns, s_out>>

vars == <<m_df, m_ai, m_out, w_df, w_call, w_out, p_file, p_metadata, p_out, p_calls,
          s_df, s_value_columns, s_out>>

\* A component that takes no part in a specification stays as constructed.
MapperOff == m_df = <<>> /\ m_ai = [mode |-> "no_client"] /\ m_out = [op |-> "off"]
WaterfallOff == w_df = <<>> /\ w_call = [op |-> "off"] /\ w_out = [raised |-> FALSE]
ParserOff == p_file = <<>> /\ p_metadata = EmptyDict /\ p_out = [op |-> "off"] /\ p_calls = 0
MetricsOff == s_df = <<>> /\ s_value_columns = <<>> /\ s_out = [op |-> "off"]

\* ------------------------------------------------------------------------
\* Inputs of the account mapper
\* ------------------------------------------------------------------------

\* At most MaxNames distinct account names per table.
MaxNames == 2

\* The names the mapper is asked about: fuzzy confidence 1.0, 0.77, 0.70, 0.46.
MapperNames == <<N_Rent, N_TotalRevenue, N_Payroll, N_Misc>>

\* The elements of pool at the positions picked, in the order of pool.
RECURSIVE PickFrom(_, _, _)
PickFrom(pool, picked, i) ==
  IF i > Len(pool) THEN <<>>
  ELSE IF i \in picked THEN <<pool[i]>> \o PickFrom(pool, picked, i + 1)
       ELSE PickFrom(pool, picked, i + 1)

SubSequences(pool, maxLen) ==
  {PickFrom(pool, picked, 1) :
     picked \in {q \in SUBSET (1..Len(pool)) : Cardinality(q) <= maxLen}}

AiConfidenceChoices ==
  {Num(0, 1), Num(1, 2), Num(7, 10), Num(3, 4), Num(1, 1), JNull, JStr}

\* What the collaborator may say about one name.
AiEntryChoices ==
  {[type |-> "absent"], [type |-> "string"]}
  \cup {[type |-> "object",
         fields |-> [category |-> "Revenue", subcategory |-> N_ServiceRevenue,
                     is_subtotal |-> FALSE, confidence |-> c]] :
          c \in AiConfidenceChoices}
  \cup {[type |-> "object", fields |-> [category |-> "Revenue"]],
        [type |-> "object", fields |-> [category |-> "Marketing", confidence |-> Num(9, 10)]],
        [type |-> "object", fields |-> [confidence |-> Num(9, 10)]],
        [type |-> "object", fields |-> [category |-> Null, confidence |-> Num(9, 10)]]}

\* A key the collaborator may add although nobody asked for it.
AiExtraEntry ==
  [type |-> "object",
   fields |-> [category |-> "Revenue", subcategory |-> N_SalesRevenue,
               is_subtotal |-> FALSE, confidence |-> Num(95, 100)]]

AiMapping(names, f, extra) ==
  [k \in {names[i] : i \in {j \in 1..Len(names) : f[j].type # "absent"}}
         \cup (IF extra THEN {N_SalesRevenue} ELSE {}) |->
     IF k = N_SalesRevenue THEN AiExtraEntry
     ELSE f[CHOOSE i \in 1..Len(names) : names[i] = k]]

AiResponses(names) ==
  {[mode |-> "no_client"], [mode |-> "api_error"], [mode |-> "non_json"]}
  \cup {[mode |-> "json", mapping |-> AiMapping(names, f, extra)] :
          f \in [1..Len(names) -> AiEntryChoices], extra \in BOOLEAN}

AccountRows(names) == [i \in 1..Len(names) |-> [account |-> names[i]]]

\* The tables over some names: the names alone, with a row whose account
\* cell is empty, or with the first name on a second row.
MapperTables ==
  UNION {{AccountRows(names),
          AccountRows(names) \o <<[account |-> NaN]>>,
          IF names = <<>> THEN <<>> ELSE AccountRows(names) \o <<[account |-> names[1]]>>} :
         names \in SubSequences(MapperNames, MaxNames)}

\* ------------------------------------------------------------------------
\* The account mapper as a state machine
\* ------------------------------------------------------------------------

MapperIdle == m_out = [op |-> "idle"]

MapperInit ==
  /\ m_df \in MapperTables
  /\ m_ai \in AiResponses(UniqueNames(m_df, 1, <<>>))
  /\ MapperIdle
  /\ WaterfallOff
  /\ ParserOff
  /\ MetricsOff

\* mapper.categorize_accounts(account_names)
CategorizeAccounts ==
  /\ m_out.op = "idle"
  /\ m_out' = [op |-> "categorize_accounts",
               account_names |-> UniqueNames(m_df, 1, <<>>),
               ret |-> categorize_accounts(UniqueNames(m_df, 1, <<>>), m_ai)]
  /\ UNCHANGED <<m_df, m_ai>>
  /\ UNCHANGED <<waterfallVars, parserVars, metricsVars>>

\* mapper.batch_categorize_dataframe(df, account_col): df is changed in place
\* and returned.
BatchCategorize ==
  /\ m_out.op = "idle"
  /\ LET ret == batch_categorize_dataframe(m_df, m_ai)
     IN /\ m_out' = [op |-> "batch_categorize_dataframe", ret |-> ret]
        /\ m_df' = IF ret.raised THEN m_df ELSE ret.df
  /\ UNCHANGED m_ai
  /\ UNCHANGED <<waterfallVars, parserVars, metricsVars>>

MapperNext == CategorizeAccounts \/ BatchCategorize

SpecMapper == MapperInit /\ [][MapperNext]_vars

\* ------------------------------------------------------------------------
\* Claims about the account mapper (checked under SpecMapper)
\* ------------------------------------------------------------------------

CategorizeDone == m_out.op = "categorize_accounts"
BatchDone == m_out.op = "batch_categorize_dataframe"

\* The collaborator returned an entry for name nm that the conversion kept.
AiReturned(nm) ==
  /\ m_ai.mode = "json"
  /\ \A k \in DOMAIN m_ai.mapping : m_ai.mapping[k].type = "object"
  /\ nm \in DOMAIN m_ai.mapping

\* The confidence of that entry (0.9 when the entry has none).
AiConfidence(nm) == Get(m_ai.mapping[nm].fields, "confidence", Num(9, 10))

\* C6: after category resolution (batch_categorize_dataframe), for every
\* response of the AI collaborator, every row's category is one of the six
\* taxonomy categories or 'Uncategorized', and is never null.
C6_CategoryInTaxonomy ==
  (BatchDone /\ ~m_out.ret.raised) =>
    \A r \in 1..Len(m_df) : m_df[r].category \in Taxonomy \cup {"Uncategorized"}

\* C7 as stated: whenever the AI returned an entry for a name, the final
\* confidence of the name is max(AI confidence, fuzzy confidence).
C7_FinalIsMax ==
  (CategorizeDone /\ ~m_out.ret.raised) =>
    \A i \in 1..Len(m_out.account_names) :
      LET nm == m_out.account_names[i]
      IN AiReturned(nm) =>
           LET a == AiConfidence(nm)
               f == Fuzzy(nm).confidence
               final == m_out.ret.results[nm].confidence
           IN FracEq(final, IF ConfLess(a, f) THEN f ELSE a)

\* C7 as amended: an AI entry with confidence >= 0.7 is final whatever the
\* fuzzy confidence is; an AI entry with confidence < 0.7 is replaced by the
\* fuzzy match exactly when the fuzzy confidence is strictly higher, so that
\* the final confidence is max(AI, fuzzy) only below 0.7.
C7_FinalIsMaxBelowCutoff ==
  (CategorizeDone /\ ~m_out.ret.raised) =>
    \A i \in 1..Len(m_out.account_names) :
      LET nm == m_out.account_names[i]
      IN AiReturned(nm) =>
           LET a == AiConfidence(nm)
               f == Fuzzy(nm).confidence
               final == m_out.ret.results[nm]
           IN IF ConfLess(a, Num(7, 10)) /\ ConfLess(a, f)
              THEN final = Fuzzy(nm)
              ELSE /\ final.method = "ai"
                   /\ final.confidence = a
                   /\ final.category = Get(m_ai.mapping[nm].fields, "category", "Unknown")

\* C7 witness: one call in which an AI entry at or above 0.7 stood although
\* the fuzzy match was more confident, and an AI entry below 0.7 lost to a
\* more confident fuzzy match.
C7_Witness ==
  /\ CategorizeDone /\ ~m_out.ret.raised
  /\ \E i, j \in 1..Len(m_out.account_names) :
       LET kept == m_out.account_names[i]
           lost == m_out.account_names[j]
       IN /\ AiReturned(kept) /\ AiReturned(lost)
          /\ ~ConfLess(AiConfidence(kept), Num(7, 10))
          /\ ConfLess(AiConfidence(kept), Fuzzy(kept).confidence)
          /\ m_out.ret.results[kept].method = "ai"
          /\ ConfLess(AiConfidence(lost), Num(7, 10))
          /\ ConfLess(AiConfidence(lost), Fuzzy(lost).confidence)
          /\ m_out.ret.results[lost].method = "fuzzy"

\* The answer of the collaborator is one of the failures C8 lists, as a
\* whole (exception, non-JSON text, entries that are no objects) ...
AiFailedWhole ==
  \/ m_ai.mode \in {"api_error", "non_json"}
  \/ /\ m_ai.mode = "json"
     /\ \E k \in DOMAIN m_ai.mapping : m_ai.mapping[k].type # "object"

\* ... or for the name nm: its confidence is missing, null or not a number.
AiFailedFor(nm) ==
  /\ m_ai.mode = "json"
  /\ nm \in DOMAIN m_ai.mapping
  /\ m_ai.mapping[nm].type = "object"
  /\ \/ "confidence" \notin DOMAIN m_ai.mapping[nm].fields
     \/ m_ai.mapping[nm].fields.confidence.t # "num"

\* C8: categorize_accounts never raises because of the collaborator, and for
\* every failure of the AI call each requested name gets its pure fuzzy match.
C8_FailureFallsBackToFuzzy ==
  CategorizeDone =>
    /\ ~m_out.ret.raised
    /\ \A i \in 1..Len(m_out.account_names) :
         LET nm == m_out.account_names[i]
         IN (AiFailedWhole \/ AiFailedFor(nm)) => m_out.ret.results[nm] = Fuzzy(nm)

\* ------------------------------------------------------------------------
\* Inputs of the waterfall calculator
\* ------------------------------------------------------------------------

\* At most MaxRows rows per table, top_n up to MaxTopN.
MaxRows == 5
MaxTopN == 6

Row(account, category, row_type, a1, a2, a3) ==
  [account |-> account, category |-> category, row_type |-> row_type,
   vals |-> [c1 |-> a1, c2 |-> a2, c3 |-> a3]]

\* The rows of a classified statement with three value columns c1, c2, c3
\* (thousandths). The first five rows move by +50, +30, -10, -5, -2 from c1
\* to c2, which is +50, -30, +10, -5, +2 on net profit, and by
\* +50, -30, +10, -5, +2 from c1 to c3.
StatementPool ==
  <<Row(N_SalesRevenue, "Revenue", "line_item", Amt(100000), Amt(150000), Amt(150000)),
    Row(N_CostOfSales, "Cost of Goods Sold", "line_item", Amt(40000), Amt(70000), Amt(10000)),
    Row(N_Rent, "Operating Expenses", "line_item", Amt(20000), Amt(10000), Amt(30000)),
    Row(N_BankCharges, "Financial Items", "line_item", Amt(5000), Amt(0), Amt(0)),
    Row(N_IncomeTaxExpense, "Tax", "line_item", Amt(3000), Amt(1000), Amt(5000)),
    Row(N_TotalRevenue, "Revenue", "subtotal", Amt(100000), Amt(150000), Amt(150000)),
    Row(N_ServiceRevenue, "Revenue", "line_item", NA, Amt(4), Amt(10)),
    Row(N_ImpairmentLoss, "Non-Operating Items", "line_item", Amt(0), Amt(-30000), Amt(30000)),
    Row(N_Misc, "Uncategorized", "line_item", Amt(7000), Amt(7012), Amt(8000))>>

WaterfallTables == SubSequences(StatementPool, MaxRows)

\* The (period1_cols, period2_cols) pairs of a call.
PeriodPairs ==
  {<< <<"c1">>, <<"c2">> >>, << <<"c1">>, <<"c3">> >>, << <<"c2">>, <<"c3">> >>,
   << <<"c1", "c2">>, <<"c3">> >>, << <<>>, <<"c1">> >>, << <<>>, <<>> >>}

MetricFilters == Taxonomy \cup {Null}

DerivedMetrics == {"gross_profit", "operating_profit", "net_profit", "ebitda"}

\* ------------------------------------------------------------------------
\* The waterfall calculator as a state machine
\* ------------------------------------------------------------------------

WaterfallInit ==
  /\ w_df \in WaterfallTables
  /\ w_call = [op |-> "none"]
  /\ w_out = [raised |-> FALSE]
  /\ MapperOff
  /\ ParserOff
  /\ MetricsOff

\* calc.calculate_waterfall(metric, period1_cols, period2_cols, top_n, metric_filter)
CalculateWaterfall ==
  /\ w_call.op = "none"
  /\ \E pp \in PeriodPairs, top_n \in 0..MaxTopN, metric_filter \in MetricFilters :
       /\ w_call' = [op |-> "calculate_waterfall", metric_filter |-> metric_filter,
                     period1_cols |-> pp[1], period2_cols |-> pp[2], top_n |-> top_n]
       /\ w_out' = calculate_waterfall(w_df, pp[1], pp[2], top_n, metric_filter)
  /\ UNCHANGED w_df
  /\ UNCHANGED <<mapperVars, parserVars, metricsVars>>

\* calc.calculate_derived_metric(metric, period1_cols, period2_cols, top_n)
CalculateDerivedMetric ==
  /\ w_call.op = "none"
  /\ \E pp \in PeriodPairs, top_n \in 0..MaxTopN, metric \in DerivedMetrics :
       /\ w_call' = [op |-> "calculate_derived_metric", metric |-> metric,
                     period1_cols |-> pp[1], period2_cols |-> pp[2], top_n |-> top_n]
       /\ w_out' = calculate_derived_metric(w_df, metric, pp[1], pp[2], top_n)
  /\ UNCHANGED w_df
  /\ UNCHANGED <<mapperVars, parserVars, metricsVars>>

WaterfallNext == CalculateWaterfall \/ CalculateDerivedMetric

SpecWaterfall == WaterfallInit /\ [][WaterfallNext]_vars

\* ------------------------------------------------------------------------
\* Claims about the waterfall calculator (checked under SpecWaterfall)
\* ------------------------------------------------------------------------

\* A call returned a waterfall.
WfDone ==
  /\ w_call.op \in {"calculate_waterfall", "calculate_derived_metric"}
  /\ ~w_out.raised

WfRaw == w_call.op = "calculate_waterfall"
WfDerived == w_call.op = "calculate_derived_metric"

\* The categories of a derived formula.
FormulaCategories(metric) ==
  IF metric = "gross_profit" THEN {"Revenue", "Cost of Goods Sold"}
  ELSE IF metric = "operating_profit"
  THEN {"Revenue", "Cost of Goods Sold", "Operating Expenses"}
  ELSE Taxonomy

\* +1 for revenue, financial and non-operating rows, -1 for COGS, opex, tax.
FormulaSign(category) ==
  IF category \in {"Revenue", "Financial Items", "Non-Operating Items"} THEN 1 ELSE -1

\* The rows of w_df that contribute to the waterfall of the call.
Contributing ==
  IF WfRaw
  THEN IF w_call.metric_filter # Null
       THEN {i \in 1..Len(w_df) : w_df[i].category = w_call.metric_filter}
       ELSE {i \in 1..Len(w_df) : w_df[i].row_type = "line_item"}
  ELSE {i \in 1..Len(w_df) : w_df[i].category \in FormulaCategories(w_call.metric)}

\* The sign the code gives a contributing row: the formula's sign in a
\* derived metric, none in a raw or unfiltered waterfall.
AppliedSign(i) == IF WfDerived THEN FormulaSign(w_df[i].category) ELSE 1

Period1Total(i) == RowSum(w_df[i], w_call.period1_cols)
Period2Total(i) == RowSum(w_df[i], w_call.period2_cols)

RECURSIVE SumOver(_, _)
SumOver(f, S) ==
  IF S = {} THEN 0
  ELSE LET e == CHOOSE e \in S : TRUE IN f[e] + SumOver(f, S \ {e})

\* The positions of the bars, read off the returned lists alone.
NumBars == Len(w_out.values)
OtherEmitted == NumBars >= 3 /\ w_out.categories[NumBars - 1] = L_Other
DriverBars == 2..(NumBars - (IF OtherEmitted THEN 2 ELSE 1))

\* The row a driver bar stands for (account names are distinct in a table).
IsRowOfBar(i, b) == display_name(w_df[i].account) = w_out.categories[b]
DriverRows == {i \in Contributing : \E b \in DriverBars : IsRowOfBar(i, b)}

\* The value the result gives for "Other": the Other bar when there is one,
\* else the other_movement field.
OtherValue == IF OtherEmitted THEN w_out.values[NumBars - 1] ELSE w_out.other_movement

\* C1: in every result, start + sum of the driver values + other value equals
\* the end value (amounts are exact thousandths, so within 1e-6 is equality),
\* for every top_n in [0, row count].
C1_Reconciles ==
  (WfDone /\ w_call.top_n <= Len(w_df)) =>
    w_out.values[1] + SumOver(w_out.values, DriverBars) + OtherValue
      = w_out.values[NumBars]

\* C2: the bars are one start bar (period-1 total, 'absolute'), the driver
\* bars ('relative'), an Other bar ('relative') exactly when the summed
\* movement of the non-driver rows exceeds 0.01 in absolute value, and one end
\* bar (period-2 total, 'total'); the four lists have one length.
C2_BarSequence ==
  WfDone =>
    LET signedP1 == [i \in Contributing |-> AppliedSign(i) * Period1Total(i)]
        signedP2 == [i \in Contributing |-> AppliedSign(i) * Period2Total(i)]
        moved == [i \in Contributing |-> AppliedSign(i) * (Period2Total(i) - Period1Total(i))]
        rest == SumOver(moved, Contributing \ DriverRows)
    IN /\ Len(w_out.categories) = NumBars
       /\ Len(w_out.colors) = NumBars
       /\ Len(w_out.measures) = NumBars
       /\ NumBars >= 2
       /\ w_out.measures[1] = "absolute"
       /\ w_out.values[1] = SumOver(signedP1, Contributing)
       /\ w_out.measures[NumBars] = "total"
       /\ w_out.values[NumBars] = SumOver(signedP2, Contributing)
       /\ \A b \in 2..(NumBars - 1) : w_out.measures[b] = "relative"
       /\ \A b \in DriverBars : \E i \in Contributing : IsRowOfBar(i, b)
       /\ Cardinality(DriverRows) = Cardinality(DriverBars)
       /\ OtherEmitted <=> (Abs(rest) > 10)
       /\ OtherEmitted => w_out.values[NumBars - 1] = rest

\* C2 witness: a waterfall with drivers whose remaining rows sum to a
\* non-zero movement of at most 0.01, so that no Other bar is emitted, ...
C2_WitnessSmallOther ==
  /\ WfDone
  /\ DriverBars # {}
  /\ ~OtherEmitted
  /\ LET moved == [i \in Contributing |-> AppliedSign(i) * (Period2Total(i) - Period1Total(i))]
     IN SumOver(moved, Contributing \ DriverRows) \in {10, 6, 4}

\* C3: the number of driver bars, and top_drivers_count, never exceed top_n.
C3_DriversAtMostTopN ==
  WfDone =>
    /\ Cardinality(DriverBars) <= w_call.top_n
    /\ w_out.top_drivers_count <= w_call.top_n
    /\ w_out.top_drivers_count = Cardinality(DriverBars)

\* C3 witness: more contributing rows than top_n, and top_n drivers shown.
C3_Witness ==
  /\ WfDone
  /\ w_call.top_n >= 1
  /\ Cardinality(Contributing) > w_call.top_n
  /\ Cardinality(DriverBars) = w_call.top_n

\* The five rows and the call of the scenario of C4.
ScenarioTable == SubSeq(StatementPool, 1, 5)

ScenarioCall ==
  /\ w_df = ScenarioTable
  /\ w_call.top_n = 2
  /\ \/ /\ WfDerived /\ w_call.metric = "net_profit"
        /\ w_call.period1_cols = <<"c1">> /\ w_call.period2_cols = <<"c2">>
     \/ /\ WfRaw /\ w_call.metric_filter = Null
        /\ w_call.period1_cols = <<"c1">> /\ w_call.period2_cols = <<"c3">>

\* C4: the drivers are the rows of greatest absolute movement, in descending
\* order of absolute movement, and Other is the sum of the signed movements
\* of the remaining rows; movements [50, -30, 10, -5, 2] with top_n = 2
\* give the drivers [50, -30] and Other = 7.
C4_DriversRankedByAbsMovement ==
  WfDone =>
    LET moved == [i \in Contributing |-> AppliedSign(i) * (Period2Total(i) - Period1Total(i))]
        rest == SumOver(moved, Contributing \ DriverRows)
    IN /\ \A b \in DriverBars : \E i \in Contributing :
            IsRowOfBar(i, b) /\ w_out.values[b] = moved[i]
       /\ Cardinality(DriverRows) = Min2(w_call.top_n, Cardinality(Contributing))
       /\ \A i \in DriverRows : \A j \in Contributing \ DriverRows :
            Abs(moved[i]) >= Abs(moved[j])
       /\ \A b, c \in DriverBars : b < c => Abs(w_out.values[b]) >= Abs(w_out.values[c])
       /\ OtherEmitted => w_out.values[NumBars - 1] = rest
       /\ w_out.other_movement = Round2(rest)
       /\ ScenarioCall =>
            /\ [b \in 1..2 |-> w_out.values[b + 1]] = <<50000, -30000>>
            /\ w_out.top_drivers_count = 2
            /\ OtherEmitted /\ w_out.values[4] = 7000
            /\ NumBars = 5
            /\ w_out.values[1] + 50000 - 30000 + 7000 = w_out.values[5]

\* C4 witness: the scenario has been computed.
C4_WitnessScenario == WfDone /\ ScenarioCall /\ WfDerived

\* C5 as stated: in every waterfall, raw category or derived, a contributing
\* row moves by (period 2 - period 1) times +1 for Revenue, Financial Items
\* and Non-Operating Items and -1 for Cost of Goods Sold, Operating Expenses
\* and Tax, and the start and end totals carry the same signs.
C5_SignedInEveryWaterfall ==
  (WfDone /\ (WfDerived \/ w_call.metric_filter # Null)) =>
    LET signedP1 == [i \in Contributing |-> FormulaSign(w_df[i].category) * Period1Total(i)]
        signedP2 == [i \in Contributing |-> FormulaSign(w_df[i].category) * Period2Total(i)]
    IN /\ w_out.values[1] = SumOver(signedP1, Contributing)
       /\ w_out.values[NumBars] = SumOver(signedP2, Contributing)
       /\ \A b \in DriverBars : \A i \in Contributing :
            IsRowOfBar(i, b) =>
              w_out.values[b] = FormulaSign(w_df[i].category)
                                * (Period2Total(i) - Period1Total(i))

\* C5 as amended: the signs are those of the three derived formulas (gross
\* profit over Revenue and COGS rows, operating profit also over Operating
\* Expenses, net profit over all six categories); a raw-category or
\* unfiltered waterfall applies no sign: a row moves by period 2 - period 1
\* and the totals are plain sums, also for COGS, Operating Expenses and Tax.
C5_SignedInDerivedOnly ==
  WfDone =>
    LET sgn == [i \in Contributing |->
                  IF WfDerived THEN FormulaSign(w_df[i].category) ELSE 1]
        signedP1 == [i \in Contributing |-> sgn[i] * Period1Total(i)]
        signedP2 == [i \in Contributing |-> sgn[i] * Period2Total(i)]
    IN /\ w_out.values[1] = SumOver(signedP1, Contributing)
       /\ w_out.values[NumBars] = SumOver(signedP2, Contributing)
       /\ \A b \in DriverBars : \A i \in Contributing :
            IsRowOfBar(i, b) =>
              w_out.values[b] = sgn[i] * (Period2Total(i) - Period1Total(i))

\* C5 witness: a raw Cost of Goods Sold waterfall shows a cost increase as a
\* positive driver and a positive start total.
C5_WitnessRawCost ==
  /\ WfDone /\ WfRaw
  /\ w_call.metric_filter = "Cost of Goods Sold"
  /\ DriverBars # {}
  /\ w_out.values[1] > 0
  /\ w_out.values[2] > 0

\* ------------------------------------------------------------------------
\* Inputs of the parser
\* ------------------------------------------------------------------------

\* At most MaxRawRows rows per sheet, at most MaxParseCalls calls per parser.
MaxRawRows == 4
MaxParseCalls == 2

\* The rows a sheet is made of, in the order they may appear: a title, the
\* header, entries (indented, upper-case, with a note or a date in the last
\* column), an empty row, a row without account name.
SheetPool ==
  <<<<TextCell(<<"A","c","m","e"," ","L","t","d">>), EmptyCell, EmptyCell, EmptyCell>>,
    <<TextCell(<<"A","c","c","o","u","n","t">>), TextCell(<<"J","a","n"," ","2","0","2","4">>), TextCell(<<"F","e","b"," ","2","0","2","4">>),
      TextCell(<<"N","o","t","e","s">>)>>,
    <<TextCell(<<"S","a","l","e","s"," ","R","e","v","e","n","u","e">>), NumberCell(100), NumberCell(150), EmptyCell>>,
    <<TextCell(<<" "," ","C","o","n","s","u","m","a","b","l","e","s">>), NumberCell(5), EmptyCell, TextCell(<<"M","a","r"," ","2","0","2","4">>)>>,
    <<TextCell(<<"T","O","T","A","L"," ","R","E","V","E","N","U","E">>), NumberCell(100), NumberCell(150), TextCell(<<"a","c","c","r","u","a","l">>)>>,
    <<EmptyCell, EmptyCell, EmptyCell, EmptyCell>>,
    <<EmptyCell, NumberCell(7), NumberCell(0), EmptyCell>>,
    <<TextCell(<<"N","e","t"," ","I","n","c","o","m","e">>), NumberCell(60), NumberCell(-90), EmptyCell>>,
    <<TextCell(<<"R","e","n","t">>), NumberCell(0), NumberCell(10), EmptyCell>>>>

Sheets == SubSequences(SheetPool, MaxRawRows)

\* No hints, or the header row given as row 0 or row 1.
HintChoices ==
  {[given |-> FALSE], [given |-> TRUE, header_row |-> 0], [given |-> TRUE, header_row |-> 1]}

\* ------------------------------------------------------------------------
\* The parser: one PLParser and one file, parsed up to MaxParseCalls times
\* ------------------------------------------------------------------------

ParserInit ==
  /\ p_file \in Sheets
  /\ p_metadata = EmptyDict
  /\ p_out = [op |-> "idle"]
  /\ p_calls = 0
  /\ MapperOff
  /\ WaterfallOff
  /\ MetricsOff

\* parser.parse_file(file_path, user_hints): an exception leaves the
\* metadata written before it in place.
ParseFile ==
  /\ p_out.op \in {"idle", "parse_file"}
  /\ p_calls < MaxParseCalls
  /\ \E user_hints \in HintChoices :
       LET ret == parse_file(p_file, user_hints, p_metadata)
       IN /\ p_out' = [op |-> "parse_file", user_hints |-> user_hints, ret |-> ret]
          /\ p_metadata' = ret.metadata
  /\ p_calls' = p_calls + 1
  /\ UNCHANGED p_file
  /\ UNCHANGED <<mapperVars, waterfallVars, metricsVars>>

ParserNext == ParseFile

SpecParser == ParserInit /\ [][ParserNext]_vars

\* ------------------------------------------------------------------------
\* Header detection on its own: parser._detect_header_row() on raw tables
\* of up to MaxHeaderRows rows
\* ------------------------------------------------------------------------

MaxHeaderRows == 17

\* A row of numbers, a title, two header rows of one score (the second in
\* upper case), and an entry.
HeaderRowPool ==
  <<<<EmptyCell, NumberCell(7), NumberCell(0), EmptyCell>>,
    <<TextCell(<<"A","c","m","e"," ","L","t","d">>), EmptyCell, EmptyCell, EmptyCell>>,
    <<TextCell(<<"A","c","c","o","u","n","t">>), TextCell(<<"J","a","n"," ","2","0","2","4">>), TextCell(<<"F","e","b"," ","2","0","2","4">>),
      TextCell(<<"N","o","t","e","s">>)>>,
    <<TextCell(<<"D","E","S","C","R","I","P","T","I","O","N">>), TextCell(<<"M","A","R"," ","2","0","2","4">>), TextCell(<<"Q","1">>),
      TextCell(<<"A","P","R"," ","2","0","2","4">>)>>,
    <<TextCell(<<"S","a","l","e","s"," ","R","e","v","e","n","u","e">>), NumberCell(100), NumberCell(150), EmptyCell>>>>

\* n rows of one filler kind, with the row kinds ra and rb at the positions
\* a and b (when the table is that long).
HeaderTable(n, filler, a, ra, b, rb) ==
  [i \in 1..n |-> IF i = a THEN HeaderRowPool[ra]
                  ELSE IF i = b THEN HeaderRowPool[rb]
                  ELSE HeaderRowPool[filler]]

HeaderLengths == {0, 1, 2, 15, 16, MaxHeaderRows}
HeaderPositions == {1, 2, 14, 15, 16, MaxHeaderRows}

HeaderTables ==
  {HeaderTable(n, filler, a, ra, b, rb) :
     n \in HeaderLengths, filler \in 1..2,
     a \in HeaderPositions, ra \in 3..5, b \in HeaderPositions, rb \in 3..5}

HeaderInit ==
  /\ p_file \in HeaderTables
  /\ p_metadata = EmptyDict
  /\ p_out = [op |-> "idle"]
  /\ p_calls = 0
  /\ MapperOff
  /\ WaterfallOff
  /\ MetricsOff

\* parser._detect_header_row() with self.df = the raw table
DetectHeaderRow ==
  /\ p_out.op = "idle"
  /\ p_out' = [op |-> "_detect_header_row", ret |-> _detect_header_row(p_file)]
  /\ UNCHANGED <<p_file, p_metadata, p_calls>>
  /\ UNCHANGED <<mapperVars, waterfallVars, metricsVars>>

HeaderNext == DetectHeaderRow

SpecHeader == HeaderInit /\ [][HeaderNext]_vars

\* ------------------------------------------------------------------------
\* Numeric cleaning on its own: parser._clean_numeric_column(col) on columns
\* of up to MaxColumnCells cells
\* ------------------------------------------------------------------------

MaxColumnCells == 2

\* Cells of a value column: empty, numbers, amounts with currency signs,
\* separators, parentheses and an exponent, and texts that are no amount.
NumericCellPool ==
  <<EmptyCell,
    NumberCell(100),
    NumberCell(-90),
    TextCell(<<"$","1",",","2","3","4",".","5","6">>),
    TextCell(<<"(","5","0","0",")">>),
    TextCell(<<"€"," ","1"," ","0","0","0">>),
    TextCell(<<"1","2","(","3",")">>),
    TextCell(<<"(","-","5","0","0",")">>),
    TextCell(<<"n","/","a">>),
    TextCell(<<"£","7",".","5",")">>),
    TextCell(<<"1","e","3">>),
    TextCell(<<"¥","(","2",",","5",")">>),
    TextCell(<<")","5","0","0","(">>),
    TextCell(<<"-">>),
    TextCell(<<>>)>>

RECURSIVE ColumnsOf(_, _)
ColumnsOf(pool, n) ==
  IF n = 0 THEN {<<>>}
  ELSE ColumnsOf(pool, n - 1)
         \cup {Append(col, pool[k]) : col \in ColumnsOf(pool, n - 1), k \in 1..Len(pool)}

NumericInit ==
  /\ p_file \in ColumnsOf(NumericCellPool, MaxColumnCells)
  /\ p_metadata = EmptyDict
  /\ p_out = [op |-> "idle"]
  /\ p_calls = 0
  /\ MapperOff
  /\ WaterfallOff
  /\ MetricsOff

\* parser._clean_numeric_column(col)
CleanNumericColumn ==
  /\ p_out.op = "idle"
  /\ p_out' = [op |-> "_clean_numeric_column", ret |-> _clean_numeric_column(p_file)]
  /\ UNCHANGED <<p_file, p_metadata, p_calls>>
  /\ UNCHANGED <<mapperVars, waterfallVars, metricsVars>>

NumericNext == CleanNumericColumn

SpecNumeric == NumericInit /\ [][NumericNext]_vars

\* ------------------------------------------------------------------------
\* Date normalization on its own: parser._normalize_date_column(col) on
\* columns of up to MaxColumnCells cells
\* ------------------------------------------------------------------------

\* Cells of a date column: empty, numbers, month and year in the formats of
\* the parser, ISO dates, and texts that are no date, two of them with four
\* digits, a hyphen and two digits inside.
DateCellPool ==
  <<EmptyCell,
    NumberCell(100),
    NumberCell(-90),
    TextCell(<<"J","a","n"," ","2","0","2","4">>),
    TextCell(<<"2","0","2","4","-","0","1">>),
    TextCell(<<"J","a","n","u","a","r","y"," ","2","0","2","4">>),
    TextCell(<<"M","a","r","-","2","0","2","4">>),
    TextCell(<<"2","0","2","4","-","0","2","-","2","9">>),
    TextCell(<<"a","c","c","r","u","a","l">>),
    TextCell(<<"F","Y","2","0","2","4","-","2","5"," ","B","u","d","g","e","t">>),
    TextCell(<<"2","0","2","4","-","1","3">>),
    TextCell(<<"T","o","t","a","l">>)>>

DatesInit ==
  /\ p_file \in ColumnsOf(DateCellPool, MaxColumnCells)
  /\ p_metadata = EmptyDict
  /\ p_out = [op |-> "idle"]
  /\ p_calls = 0
  /\ MapperOff
  /\ WaterfallOff
  /\ MetricsOff

\* parser._normalize_date_column(col)
NormalizeDateColumn ==
  /\ p_out.op = "idle"
  /\ p_out' = [op |-> "_normalize_date_column", ret |-> _normalize_date_column(p_file)]
  /\ UNCHANGED <<p_file, p_metadata, p_calls>>
  /\ UNCHANGED <<mapperVars, waterfallVars, metricsVars>>

DatesNext == NormalizeDateColumn

SpecDates == DatesInit /\ [][DatesNext]_vars

\* ------------------------------------------------------------------------
\* Claims about the parser (checked under SpecParser)
\* ------------------------------------------------------------------------

\* parse_file returned a result.
ParseDone == p_out.op = "parse_file" /\ ~p_out.ret.raised

\* The index labels of the rows of a table.
IndexOf(rows) == {rows[r].idx : r \in 1..Len(rows)}

\* The cell of the account column in a row.
AccountCell(row) == row.cells[p_out.ret.metadata["columns"].account]

\* The account name of the row, lower-cased, contains a subtotal keyword (an
\* empty or numeric account cell reads 'nan' or digits and contains none).
HasSubtotalKeyword(row) ==
  /\ AccountCell(row).t = "str"
  /\ \E k \in 1..Len(SUBTOTAL_KEYWORDS) : Contains(Lower(AccountCell(row).s), SUBTOTAL_KEYWORDS[k])

\* C9: after parse_file the 'subtotals' and 'line_items' outputs are disjoint,
\* their union is the full row set, a row is in 'subtotals' iff its
\* lower-cased account name contains a subtotal keyword, and the row_type
\* column of 'data' agrees with that membership for every row.
C9_RowTypePartition ==
  ParseDone =>
    LET data == p_out.ret.data.rows
        line_items == p_out.ret.line_items
        subtotals == p_out.ret.subtotals
    IN /\ IndexOf(line_items) \cap IndexOf(subtotals) = {}
       /\ IndexOf(line_items) \cup IndexOf(subtotals) = IndexOf(data)
       /\ Len(line_items) + Len(subtotals) = Len(data)
       /\ Cardinality(IndexOf(data)) = Len(data)
       /\ \A r \in 1..Len(data) :
            /\ data[r].row_type \in {"subtotal", "line_item"}
            /\ (data[r].idx \in IndexOf(subtotals)) <=> HasSubtotalKeyword(data[r])
            /\ (data[r].row_type = "subtotal") <=> (data[r].idx \in IndexOf(subtotals))
            /\ (data[r].row_type = "line_item") <=> (data[r].idx \in IndexOf(line_items))
       /\ \A k \in 1..Len(line_items) : \E r \in 1..Len(data) :
            data[r].idx = line_items[k].idx /\ data[r].cells = line_items[k].cells
       /\ \A k \in 1..Len(subtotals) : \E r \in 1..Len(data) :
            data[r].idx = subtotals[k].idx /\ data[r].cells = subtotals[k].cells

\* C9 witness: a parsed table with a subtotal written in upper case, a line
\* item whose name contains a keyword inside a word counted as subtotal, and
\* a line item.
C9_Witness ==
  /\ ParseDone
  /\ \E a, b, c \in 1..Len(p_out.ret.data.rows) :
       LET data == p_out.ret.data.rows
       IN /\ AccountCell(data[a]) = TextCell(<<"T","O","T","A","L"," ","R","E","V","E","N","U","E">>)
          /\ data[a].row_type = "subtotal"
          /\ AccountCell(data[b]) = TextCell(<<" "," ","C","o","n","s","u","m","a","b","l","e","s">>)
          /\ data[b].row_type = "subtotal"
          /\ data[c].row_type = "line_item"

\* ------------------------------------------------------------------------
\* Inputs of the metrics calculator
\* ------------------------------------------------------------------------

\* At most MaxMetricRows rows per table.
MaxMetricRows == 3

P_Jan == <<"J","a","n"," ","2","0","2","4">>
P_Feb == <<"F","e","b"," ","2","0","2","4">>
P_Mar == <<"M","a","r"," ","2","0","2","4">>
P_Apr == <<"A","p","r"," ","2","0","2","4">>

MetricRow(account, jan, feb, mar, apr) ==
  [account |-> account,
   vals |-> (P_Jan :> jan) @@ (P_Feb :> feb) @@ (P_Mar :> mar) @@ (P_Apr :> apr)]

\* Line items: revenue, names that match both heuristics, names the exclude
\* terms rule out of revenue, expenses, a name matching neither, no name, and
\* a revenue growing by a tenth a month. No revenue moves from March to April.
LineItemPool ==
  <<MetricRow(TextCell(<<"S","a","l","e","s"," ","R","e","v","e","n","u","e">>),
              NumberCell(100), NumberCell(150), NumberCell(150), NumberCell(150)),
    MetricRow(TextCell(<<"I","n","t","e","r","e","s","t"," ","I","n","c","o","m","e">>),
              NumberCell(5), NumberCell(-8), NumberCell(8), NumberCell(8)),
    MetricRow(TextCell(<<"R","e","n","t","a","l"," ","I","n","c","o","m","e">>),
              EmptyCell, NumberCell(12), NumberCell(12), NumberCell(12)),
    MetricRow(TextCell(<<"C","o","s","t"," ","o","f"," ","R","e","v","e","n","u","e">>),
              NumberCell(40), NumberCell(70), NumberCell(70), NumberCell(35)),
    MetricRow(TextCell(<<"I","n","c","o","m","e"," ","T","a","x"," ","E","x","p","e","n","s","e">>),
              NumberCell(3), EmptyCell, NumberCell(3), NumberCell(6)),
    MetricRow(TextCell(<<"R","e","n","t">>),
              NumberCell(-20), NumberCell(10), NumberCell(10), NumberCell(10)),
    MetricRow(TextCell(<<"W","a","r","r","a","n","t","y">>),
              NumberCell(2), NumberCell(2), NumberCell(2), NumberCell(2)),
    MetricRow(TextCell(<<"M","i","s","c">>),
              NumberCell(7), NumberCell(9), NumberCell(9), NumberCell(9)),
    MetricRow(EmptyCell,
              NumberCell(1), NumberCell(1), NumberCell(1), NumberCell(1)),
    MetricRow(TextCell(<<"S","u","b","s","c","r","i","p","t","i","o","n">>),
              NumberCell(100), NumberCell(110), NumberCell(121), NumberCell(121))>>

MetricTables == SubSequences(LineItemPool, MaxMetricRows)

\* metadata['columns']['values']: the value columns in file order, or as user
\* hints list them.
ValueColumnChoices ==
  {<<>>, <<P_Jan>>, <<P_Feb>>, <<P_Jan, P_Feb>>, <<P_Feb, P_Jan>>, <<P_Apr, P_Jan>>,
   <<P_Jan, P_Feb, P_Mar>>, <<P_Apr, P_Feb, P_Jan>>, <<P_Jan, P_Feb, P_Mar, P_Apr>>}

\* cash_balance: None, or a balance in dollars.
CashBalances ==
  {None, FloatOf(0), FloatOf(-50), FloatOf(100), FloatOf(120000), FloatOf(1000000)}

\* What datetime.now() may return.
Todays == {[year |-> 2024, month |-> 1, day |-> 31], [year |-> 2026, month |-> 11, day |-> 3]}

\* ------------------------------------------------------------------------
\* The metrics calculator: one StartupMetricsCalculator(df, metadata)
\* ------------------------------------------------------------------------

MetricsInit ==
  /\ s_df \in MetricTables
  /\ s_value_columns \in ValueColumnChoices
  /\ s_out = [op |-> "idle"]
  /\ MapperOff
  /\ WaterfallOff
  /\ ParserOff

\* calc._calculate_aggregates()
CalculateAggregates ==
  /\ s_out.op = "idle"
  /\ s_out' = [op |-> "_calculate_aggregates",
               ret |-> _calculate_aggregates(s_df, s_value_columns)]
  /\ UNCHANGED <<s_df, s_value_columns>>
  /\ UNCHANGED <<mapperVars, waterfallVars, parserVars>>

\* calc.calculate_all_metrics(cash_balance)
CalculateAllMetrics ==
  /\ s_out.op = "idle"
  /\ \E cash_balance \in CashBalances, today \in Todays :
       s_out' = [op |-> "calculate_all_metrics",
                 cash_balance |-> cash_balance,
                 today |-> today,
                 ret |-> calculate_all_metrics(s_df, s_value_columns, cash_balance, today)]
  /\ UNCHANGED <<s_df, s_value_columns>>
  /\ UNCHANGED <<mapperVars, waterfallVars, parserVars>>

MetricsNext == CalculateAggregates \/ CalculateAllMetrics

SpecMetrics == MetricsInit /\ [][MetricsNext]_vars

\* ------------------------------------------------------------------------
\* The metrics calculator and the waterfall calculator side by side: every
\* computation of the two services that divides
\* ------------------------------------------------------------------------

ComputationsInit == MetricsInit \/ WaterfallInit

ComputationsNext == MetricsNext \/ WaterfallNext

SpecComputations == ComputationsInit /\ [][ComputationsNext]_vars

\* ------------------------------------------------------------------------
\* The runway calculation on its own: calc._calculate_runway called with a
\* cash balance and an average net burn
\* ------------------------------------------------------------------------

RunwayCashBalances ==
  {FloatOf(-50), FloatOf(0), FloatOf(57), FloatOf(100), FloatOf(599), FloatOf(600),
   FloatOf(1199), FloatOf(1200), FloatOf(1799), FloatOf(1800), FloatOf(120000),
   FloatOf(1000000)}

RunwayNetBurns ==
  {FloatOf(-5), FloatOf(0), Float(1, 2), FloatOf(1), FloatOf(3), FloatOf(10),
   FloatOf(100), FloatOf(20000)}

RunwayInit ==
  /\ s_df = <<>>
  /\ s_value_columns = <<>>
  /\ s_out = [op |-> "idle"]
  /\ MapperOff
  /\ WaterfallOff
  /\ ParserOff

\* calc._calculate_runway(cash_balance, avg_net_burn)
CalculateRunway ==
  /\ s_out.op = "idle"
  /\ \E cash_balance \in RunwayCashBalances, avg_net_burn \in RunwayNetBurns,
         today \in Todays :
       s_out' = [op |-> "_calculate_runway",
                 cash_balance |-> cash_balance,
                 avg_net_burn |-> avg_net_burn,
                 today |-> today,
                 ret |-> _calculate_runway(cash_balance, avg_net_burn, today)]
  /\ UNCHANGED <<s_df, s_value_columns>>
  /\ UNCHANGED <<mapperVars, waterfallVars, parserVars>>

RunwayNext == CalculateRunway

SpecRunway == RunwayInit /\ [][RunwayNext]_vars

\* ------------------------------------------------------------------------
\* Claims about the metrics calculator (checked under SpecMetrics)
\* ------------------------------------------------------------------------

\* _calculate_aggregates returned the per-period totals.
AggregatesDone == s_out.op = "_calculate_aggregates" /\ s_value_columns # <<>>

\* The account name of row i matches the revenue-keyword heuristic: a
\* revenue keyword and none of the exclude terms.
MatchesRevenue(i) ==
  LET name == Lower(CellStr(s_df[i].account))
  IN /\ \E k \in 1..Len(revenue_keywords) : Contains(name, revenue_keywords[k])
     /\ \A k \in 1..Len(exclude_keywords) : ~Contains(name, exclude_keywords[k])

\* The account name of row i matches the expense-keyword heuristic.
MatchesExpense(i) ==
  LET name == Lower(CellStr(s_df[i].account))
  IN \E k \in 1..Len(expense_keywords) : Contains(name, expense_keywords[k])

\* The sum of |value| over the non-null cells of period in the rows of S.
AbsTotal(S, period) ==
  LET cell == [i \in S |-> s_df[i].vals[period]]
      amount == [i \in S |-> IF isna(cell[i]) THEN 0 ELSE Abs(cell[i].v)]
  IN SumOver(amount, S)

\* C10 as stated: per period, revenue_total sums |value| over the rows
\* matching the revenue heuristic, expense_total sums |value| over the rows
\* matching the expense heuristic, each heuristic on its own, and
\* net_income = revenue_total - expense_total.
C10_IndependentHeuristics ==
  AggregatesDone =>
    \A period \in Range(s_value_columns) :
      /\ s_out.ret.revenue_by_period[period]
           = AbsTotal({i \in 1..Len(s_df) : MatchesRevenue(i)}, period)
      /\ s_out.ret.expenses_by_period[period]
           = AbsTotal({i \in 1..Len(s_df) : MatchesExpense(i)}, period)
      /\ s_out.ret.net_income_by_period[period]
           = s_out.ret.revenue_by_period[period] - s_out.ret.expenses_by_period[period]

\* C10 as amended: the revenue heuristic is tried first and the expense
\* heuristic only on the rows it rejects: expense_total sums |value| over
\* the rows that match the expense heuristic and not the revenue heuristic;
\* rows matching neither contribute to neither sum.
C10_ExpenseOnlyIfNotRevenue ==
  AggregatesDone =>
    \A period \in Range(s_value_columns) :
      /\ s_out.ret.revenue_by_period[period]
           = AbsTotal({i \in 1..Len(s_df) : MatchesRevenue(i)}, period)
      /\ s_out.ret.expenses_by_period[period]
           = AbsTotal({i \in 1..Len(s_df) : MatchesExpense(i) /\ ~MatchesRevenue(i)}, period)
      /\ s_out.ret.net_income_by_period[period]
           = s_out.ret.revenue_by_period[period] - s_out.ret.expenses_by_period[period]

\* C10 witness: totals computed over a row that matches both heuristics and
\* has an amount, beside an expense row and a row matching neither.
C10_Witness ==
  /\ AggregatesDone
  /\ \E period \in Range(s_value_columns) :
       /\ \E i \in 1..Len(s_df) :
            MatchesRevenue(i) /\ MatchesExpense(i) /\ notna(s_df[i].vals[period])
       /\ \E i \in 1..Len(s_df) :
            ~MatchesRevenue(i) /\ MatchesExpense(i) /\ notna(s_df[i].vals[period])
       /\ \E i \in 1..Len(s_df) : ~MatchesRevenue(i) /\ ~MatchesExpense(i)
       /\ s_out.ret.expenses_by_period[period] > 0

\* calculate_all_metrics returned its dict over at least one value column.
AllMetricsDone ==
  /\ s_out.op = "calculate_all_metrics"
  /\ ~s_out.ret.raised
  /\ s_value_columns # <<>>

\* The revenue and expense totals in the order in which the per-period dicts
\* hold them.
RevenueSequence ==
  [i \in 1..Len(s_value_columns) |-> s_out.ret.aggregates.revenue_by_period[s_value_columns[i]]]
ExpenseSequence ==
  [i \in 1..Len(s_value_columns) |-> s_out.ret.aggregates.expenses_by_period[s_value_columns[i]]]

\* The month-over-month growth from a revenue of previous to one of current.
GrowthBetween(current, previous) ==
  IF previous = 0 THEN FloatOf(0)
  ELSE Float(100 * (current - previous), Abs(previous))

\* C11: the period order is the same in every derived record: for every list
\* of value columns and every period p, net_burn_by_period[p] is
\* expenses_by_period[p] - revenue_by_period[p], mom_growth_by_period[p] is the
\* growth from the period right before p in the aggregate sequence to p, and
\* 'periods' lists the periods in the order in which revenue_by_period and
\* expenses_by_period hold them.
C11_PeriodOrderConsistent ==
  AllMetricsDone =>
    /\ s_out.ret.aggregates.periods = s_value_columns
    /\ \A i \in 1..Len(s_value_columns) :
         s_out.ret.burn_rate.net_burn_by_period[s_value_columns[i]]
           = FloatOf(ExpenseSequence[i] - RevenueSequence[i])
    /\ \A i \in 2..Len(s_value_columns) :
         s_out.ret.growth.mom_growth_by_period[s_value_columns[i]]
           = GrowthBetween(RevenueSequence[i], RevenueSequence[i - 1])

\* ------------------------------------------------------------------------
\* Claims about the runway (checked under SpecRunway)
\* ------------------------------------------------------------------------

\* _calculate_runway was called with a positive average net burn.
RunwayBurning == s_out.op = "_calculate_runway" /\ s_out.avg_net_burn.num > 0

\* It returned its dict.
RunwayReturned == "raised" \notin DOMAIN s_out.ret

\* cash_balance / avg_net_burn of the call
MonthsOfCall == Float(s_out.cash_balance.num * s_out.avg_net_burn.den,
                      s_out.cash_balance.den * s_out.avg_net_burn.num)

\* x is in the half-open interval [lo, hi) of months
MonthsIn(x, lo, hi) == x.num >= lo * x.den /\ x.num < hi * x.den

\* The band the claim gives a runway of x months.
BandOf(x) ==
  IF x.num < 6 * x.den THEN <<"critical", "high">>
  ELSE IF MonthsIn(x, 6, 12) THEN <<"concerning", "medium">>
  ELSE IF MonthsIn(x, 12, 18) THEN <<"comfortable", "low">>
  ELSE <<"strong", "none">>

\* C12: for a positive average net burn, months_remaining is
\* cash_balance / avg_net_burn (to the one decimal the record keeps) and the
\* status and urgency are critical/high below 6 months, concerning/medium
\* from 6 to below 12, comfortable/low from 12 to below 18, strong/none from
\* 18 on: one band for every cash balance and burn.
C12_OneBandForEveryRunway ==
  RunwayBurning =>
    /\ RunwayReturned
    /\ s_out.ret.months_remaining = RoundTo(MonthsOfCall, 10)
    /\ <<s_out.ret.status, s_out.ret.urgency>> = BandOf(MonthsOfCall)

\* The scenario of C13: cash_balance = 120,000 and avg_net_burn = 20,000.
RunwayScenario ==
  /\ s_out.op = "_calculate_runway"
  /\ s_out.cash_balance = FloatOf(120000)
  /\ s_out.avg_net_burn = FloatOf(20000)

\* C13 as stated: with cash_balance = 120,000 and avg_net_burn = 20,000 the
\* runway record has months_remaining = 6.0, status 'critical' and urgency
\* 'high'.
C13_SixMonthsCritical ==
  RunwayScenario =>
    /\ s_out.ret.months_remaining = FloatOf(6)
    /\ s_out.ret.status = "critical"
    /\ s_out.ret.urgency = "high"

\* C13 as amended: with cash_balance = 120,000 and avg_net_burn = 20,000 the
\* runway record has months_remaining = 6.0, status 'concerning' and urgency
\* 'medium': 6 months is not below 6.
C13_SixMonthsConcerning ==
  RunwayScenario =>
    /\ s_out.ret.months_remaining = FloatOf(6)
    /\ s_out.ret.status = "concerning"
    /\ s_out.ret.urgency = "medium"

\* C13 witness: the runway of the scenario was calculated.
C13_Witness == RunwayScenario /\ RunwayReturned /\ s_out.ret.cash_balance = FloatOf(120000)

\* ------------------------------------------------------------------------
\* Claims about calculate_all_metrics (checked under SpecMetrics)
\* ------------------------------------------------------------------------

\* calculate_all_metrics returned its dict.
MetricsReturned == s_out.op = "calculate_all_metrics" /\ ~s_out.ret.raised

\* The average net burn of the returned burn record is <= 0.
NotBurning ==
  /\ s_out.ret.burn_rate # EmptyDict
  /\ s_out.ret.burn_rate.net_burn_avg.num <= 0

\* C14: whenever a cash balance is supplied to calculate_all_metrics and the
\* average net burn is <= 0 (exactly 0 included), the result has a runway
\* record with infinite months_remaining and status 'profitable'; the runway
\* record is absent only when no cash balance is supplied.
C14_ProfitableRunwayPresent ==
  MetricsReturned =>
    /\ s_out.ret.runway = None => s_out.cash_balance = None
    /\ (s_out.cash_balance # None /\ NotBurning) =>
         /\ s_out.ret.runway # None
         /\ s_out.ret.runway.months_remaining = Infinity
         /\ s_out.ret.runway.status = "profitable"

\* The number of periods of the revenue sequence.
NumPeriods == Len(s_value_columns)

\* C15: for a revenue sequence of n >= 2 periods, growth has exactly n-1
\* month-over-month values, the i-th being
\* (rev[i] - rev[i-1]) / |rev[i-1]| * 100 when rev[i-1] is not 0 and 0 when it
\* is, and overall growth is the same formula between the first and the last
\* period; revenue [100, 110, 121] gives the values [10.0, 10.0] and an
\* overall growth of 21.0.  The i-th value is stored under the (i+1)-th entry
\* of 'periods'.
C15_GrowthPerConsecutivePair ==
  (MetricsReturned /\ NumPeriods >= 2) =>
    LET growth == s_out.ret.growth
        periods == s_out.ret.aggregates.periods
    IN /\ growth # EmptyDict
       /\ Cardinality(DOMAIN growth.mom_growth_by_period) = NumPeriods - 1
       /\ \A i \in 2..NumPeriods :
            growth.mom_growth_by_period[periods[i]]
              = GrowthBetween(RevenueSequence[i], RevenueSequence[i - 1])
       /\ growth.mom_growth_latest
            = GrowthBetween(RevenueSequence[NumPeriods], RevenueSequence[NumPeriods - 1])
       /\ growth.overall_growth = GrowthBetween(RevenueSequence[NumPeriods], RevenueSequence[1])
       /\ (NumPeriods = 3 /\ RevenueSequence[1] = 100 /\ RevenueSequence[2] = 110
             /\ RevenueSequence[3] = 121) =>
            /\ growth.mom_growth_by_period[periods[2]] = FloatOf(10)
            /\ growth.mom_growth_by_period[periods[3]] = FloatOf(10)
            /\ growth.overall_growth = FloatOf(21)

\* C15 witness: growth was calculated for the revenue sequence [100, 110, 121].
C15_Witness ==
  /\ MetricsReturned
  /\ NumPeriods = 3
  /\ RevenueSequence[1] = 100 /\ RevenueSequence[2] = 110 /\ RevenueSequence[3] = 121
  /\ s_out.ret.growth.overall_growth = FloatOf(21)


\* ------------------------------------------------------------------------
\* Claims about divisions (checked under SpecComputations)
\* ------------------------------------------------------------------------

\* expenses - revenue of the i-th period of the aggregates.
NetBurnSequence ==
  [i \in 1..NumPeriods |-> ExpenseSequence[i] - RevenueSequence[i]]

RECURSIVE SumSeq(_)
SumSeq(s) == IF s = <<>> THEN 0 ELSE Head(s) + SumSeq(Tail(s))

\* The average the burn trend divides by is 0: the net burns before the last
\* three (the first net burn when there are exactly three) sum to 0.
EarlierAverageIsZero ==
  IF NumPeriods > 3 THEN SumSeq(SubSeq(NetBurnSequence, 1, NumPeriods - 3)) = 0
  ELSE NetBurnSequence[1] = 0

\* Every entry of the three expense-driver lists.
DriverEntries ==
  LET drivers == s_out.ret.expense_drivers
  IN Range(drivers.top_expenses) \cup Range(drivers.fastest_growing)
       \cup Range(drivers.largest_increases)

\* The period-1 total of the waterfall of the call, from the table.
WfPeriod1Value ==
  SumOver([i \in 1..Len(w_df) |-> AppliedSign(i) * Period1Total(i)], Contributing)

\* C16: no metric or waterfall computation divides by zero or yields an
\* infinite or NaN value from a zero divisor: MoM % and overall growth are 0
\* when the prior/first value is 0, CMGR is 0 unless there are >= 3 periods
\* and the first revenue is strictly positive, the burn trend is 0 when the
\* earlier average is 0, the expense-driver percent change is 0 when the
\* previous amount is 0, burn_multiple is not computed when the annualized
\* latest revenue is not > 0, revenue_per_dollar_spent is 0 when the latest
\* expenses are 0, and total_movement_pct is 0 when the period-1 total is 0.
C16_NoZeroDivisor ==
  /\ (MetricsReturned /\ NumPeriods >= 2) =>
       LET growth == s_out.ret.growth
           periods == s_out.ret.aggregates.periods
       IN /\ \A i \in 2..NumPeriods :
               /\ IsFloat(growth.mom_growth_by_period[periods[i]])
               /\ RevenueSequence[i - 1] = 0 =>
                    growth.mom_growth_by_period[periods[i]] = FloatOf(0)
          /\ IsFloat(growth.mom_growth_avg)
          /\ IsFloat(growth.mom_growth_latest)
          /\ IsFloat(growth.overall_growth)
          /\ RevenueSequence[1] = 0 => growth.overall_growth = FloatOf(0)
          /\ IF NumPeriods >= 3 /\ RevenueSequence[1] > 0
             THEN IsFloat(growth.cmgr.ratio)
             ELSE growth.cmgr = FloatOf(0)
  /\ (MetricsReturned /\ NumPeriods >= 1) =>
       LET burn == s_out.ret.burn_rate
           efficiency == s_out.ret.efficiency
       IN /\ IsFloat(burn.burn_rate_trend)
          /\ IsFloat(burn.gross_burn_avg)
          /\ IsFloat(burn.net_burn_avg)
          /\ (NumPeriods >= 3 /\ EarlierAverageIsZero) => burn.burn_rate_trend = FloatOf(0)
          /\ IsFloat(efficiency.revenue_per_dollar_spent)
          /\ ExpenseSequence[NumPeriods] = 0 =>
               efficiency.revenue_per_dollar_spent = FloatOf(0)
          /\ "burn_multiple" \in DOMAIN efficiency =>
               IF RevenueSequence[NumPeriods] * 12 > 0
               THEN IsFloat(efficiency.burn_multiple)
               ELSE efficiency.burn_multiple = None
  /\ MetricsReturned =>
       \A entry \in DriverEntries :
         /\ IsFloat(entry.change_percent)
         /\ FZero(entry.previous_amount) => entry.change_percent = FloatOf(0)
  /\ WfDone =>
       /\ w_out.total_movement_pct \in Int
       /\ WfPeriod1Value = 0 => w_out.total_movement_pct = 0

\* C16 witness: metrics were returned for three or more periods of which the
\* first has no revenue and the next has some, so that the month-over-month
\* growth, the overall growth and the CMGR all met a zero divisor.
C16_Witness ==
  /\ MetricsReturned
  /\ NumPeriods >= 3
  /\ RevenueSequence[1] = 0
  /\ RevenueSequence[2] > 0
  /\ RevenueSequence[NumPeriods] > 0
  /\ s_out.ret.growth.overall_growth = FloatOf(0)
  /\ s_out.ret.growth.cmgr = FloatOf(0)


\* ------------------------------------------------------------------------
\* Claims about null amounts (checked under SpecMetrics)
\* ------------------------------------------------------------------------

\* The latest two value columns, which the expense drivers compare.
LatestPeriod == s_value_columns[NumPeriods]
PreviousPeriod == s_value_columns[NumPeriods - 1]

\* The amount of row i in a period counts for the revenue (the expenses) of
\* that period: the cell is not null and the account is of that kind.
RevenueAmount(i, period) ==
  IF ~isna(s_df[i].vals[period]) /\ account_kind(s_df[i].account).revenue
  THEN Abs(s_df[i].vals[period].v) ELSE 0
ExpenseAmount(i, period) ==
  IF ~isna(s_df[i].vals[period]) /\ ~account_kind(s_df[i].account).revenue
       /\ account_kind(s_df[i].account).expense
  THEN Abs(s_df[i].vals[period].v) ELSE 0

\* C17: a null amount is never replaced by zero in a derived computation:
\* the period aggregates skip null cells, and in the expense-driver
\* comparison of the latest two periods a row whose amount is null in either
\* period gets no dollar change computed as if that amount were 0.
C17_NullNeverZero ==
  /\ AllMetricsDone =>
       \A period \in Range(s_value_columns) :
         /\ s_out.ret.aggregates.revenue_by_period[period]
              = SumOver([i \in 1..Len(s_df) |-> RevenueAmount(i, period)], 1..Len(s_df))
         /\ s_out.ret.aggregates.expenses_by_period[period]
              = SumOver([i \in 1..Len(s_df) |-> ExpenseAmount(i, period)], 1..Len(s_df))
  /\ (MetricsReturned /\ NumPeriods >= 2) =>
       \A i \in 1..Len(s_df) : \A entry \in DriverEntries :
         (/\ entry.account = CellStr(s_df[i].account)
          /\ isna(s_df[i].vals[LatestPeriod]) \/ isna(s_df[i].vals[PreviousPeriod]))
           => entry.change_dollar
                # FSub(amount_or_zero(s_df[i].vals[LatestPeriod]),
                       amount_or_zero(s_df[i].vals[PreviousPeriod]))


\* ------------------------------------------------------------------------
\* Claims about header detection (checked under SpecHeader)
\* ------------------------------------------------------------------------

HeaderDetected == p_out.op = "_detect_header_row"

\* The rows the detection scans: the first 15, counted from 1.
ScannedRows == 1..Min2(15, Len(p_file))

\* Twice the score of the row of 0-based index idx.
ScoreOfRow(idx) == RowScore(p_file[idx + 1])

\* C18: header detection returns exactly one row index among the first 15
\* rows: a row scores 0.5 x (number of text cells) + 2 x (number of non-null
\* cells containing a header keyword, case-insensitive); the result is the
\* earliest row having the strictly greatest score, and row 0 when every
\* scanned row scores 0.
C18_EarliestRowOfGreatestScore ==
  HeaderDetected =>
    LET header_row == p_out.ret
    IN /\ header_row \in 0..14
       /\ p_file # <<>> => header_row + 1 \in ScannedRows
       /\ IF \A i \in ScannedRows : ScoreOfRow(i - 1) = 0
          THEN header_row = 0
          ELSE /\ \A i \in ScannedRows : ScoreOfRow(i - 1) <= ScoreOfRow(header_row)
               /\ \A i \in ScannedRows :
                    i - 1 < header_row => ScoreOfRow(i - 1) < ScoreOfRow(header_row)
       /\ \A i \in 1..Len(p_file) :
            /\ p_file[i] = HeaderRowPool[1] => RowScore(p_file[i]) = 0
            /\ p_file[i] = HeaderRowPool[2] => RowScore(p_file[i]) = 1
            /\ p_file[i] = HeaderRowPool[3] => RowScore(p_file[i]) = 4 + 4 * 3
            /\ p_file[i] = HeaderRowPool[4] => RowScore(p_file[i]) = 4 + 4 * 3
            /\ p_file[i] = HeaderRowPool[5] => RowScore(p_file[i]) = 1 + 4 * 1

\* C18 witness: in a table of more than 15 rows the row of greatest score is
\* the sixteenth, two of the first 15 rows share the greatest score among
\* them, and the earlier of the two was returned.
C18_Witness ==
  /\ HeaderDetected
  /\ Len(p_file) > 15
  /\ \A i \in ScannedRows : RowScore(p_file[16]) > ScoreOfRow(i - 1)
  /\ \E i \in ScannedRows :
       /\ i - 1 > p_out.ret
       /\ ScoreOfRow(i - 1) = ScoreOfRow(p_out.ret)
  /\ ScoreOfRow(p_out.ret) > 0


\* ------------------------------------------------------------------------
\* Claims about numeric cleaning (checked under SpecNumeric)
\* ------------------------------------------------------------------------

NumericCleaned == p_out.op = "_clean_numeric_column"

\* The text is a number float() reads.
IsNumberText(s) == float_of_str(s) \notin {ValueError, FloatNaN}

\* The cell a text normalizes to by the rule: strip, then the negative of
\* the number inside a pair of wrapping parentheses, else the number, else
\* null.
NormalizedAmount(text) ==
  LET s == remove_chars(text, StrippedChars)
      wrapped == Len(s) >= 2 /\ s[1] = "(" /\ s[Len(s)] = ")"
  IN IF wrapped /\ IsNumberText(SubSeq(s, 2, Len(s) - 1))
     THEN float_cell(negated(float_of_str(SubSeq(s, 2, Len(s) - 1))))
     ELSE IF IsNumberText(s) THEN float_cell(float_of_str(s))
     ELSE EmptyCell

\* C19: numeric normalization of a cell: after stripping currency symbols,
\* commas and whitespace, a value wrapped in parentheses is the negative of
\* the enclosed number, an already-numeric cell is returned unchanged as a
\* float, and any input that is not a parseable number yields null;
\* '$1,234.56' gives 1234.56 and '(500)' gives -500.0.
C19_NumericNormalization ==
  NumericCleaned =>
    \A i \in 1..Len(p_file) :
      /\ isna(p_file[i]) => p_out.ret[i] = EmptyCell
      /\ p_file[i].t = "float" => p_out.ret[i] = p_file[i]
      /\ p_file[i].t = "str" => p_out.ret[i] = NormalizedAmount(p_file[i].s)
      /\ p_file[i] = NumericCellPool[4] => p_out.ret[i] = NumberCell(Float(123456, 100))
      /\ p_file[i] = NumericCellPool[5] => p_out.ret[i] = NumberCell(-500)


\* ------------------------------------------------------------------------
\* Claims about date normalization (checked under SpecDates)
\* ------------------------------------------------------------------------

DatesNormalized == p_out.op = "_normalize_date_column"

\* A canonical period key: YYYY-MM with a month of 01..12.
IsPeriodKey(cell) ==
  /\ cell.t = "str"
  /\ Len(cell.s) = 7
  /\ DigitsAt(cell.s, 1, 4) /\ cell.s[5] = "-" /\ DigitsAt(cell.s, 6, 2)
  /\ DigitsValue(SubSeq(cell.s, 6, 7), 0) \in 1..12

\* A cell that holds no date: a number, or a text without a digit.
HoldsNoDate(cell) ==
  \/ cell.t = "float"
  \/ cell.t = "str" /\ \A i \in 1..Len(cell.s) : ~IsDigit(cell.s[i])

\* C20: date normalization of a cell yields either null or a canonical
\* period key of the form YYYY-MM whose month part is in 01..12; 'Jan 2024'
\* and '2024-01' both give '2024-01'; input that is not a date yields null
\* and is never coerced to a default date.
C20_DateNormalization ==
  DatesNormalized =>
    \A i \in 1..Len(p_file) :
      /\ p_out.ret[i] = EmptyCell \/ IsPeriodKey(p_out.ret[i])
      /\ isna(p_file[i]) => p_out.ret[i] = EmptyCell
      /\ HoldsNoDate(p_file[i]) => p_out.ret[i] = EmptyCell
      /\ p_file[i] \in {DateCellPool[4], DateCellPool[5]}
           => p_out.ret[i] = TextCell(<<"2","0","2","4","-","0","1">>)


\* ------------------------------------------------------------------------
\* The period functions of the waterfall calculator: get_available_periods
\* on tables of up to MaxPeriodCells cells per column, suggest_period_ranges
\* on lists of up to MaxPeriods periods
\* ------------------------------------------------------------------------

MaxPeriods == 25
MaxPeriodCells == 2

\* The k-th month from January 2023 as a period key.
PeriodKey(k) ==
  NatStr(2023 + (k - 1) \div 12) \o <<"-">>
    \o (IF ((k - 1) % 12) + 1 < 10 THEN <<"0">> ELSE <<>>) \o NatStr(((k - 1) % 12) + 1)

\* The first n months from January 2023: a sorted list of distinct periods.
PeriodLists == {[k \in 1..n |-> PeriodKey(k)] : n \in 0..MaxPeriods}

\* The cells of a normalized date column.
PeriodCellPool == <<NaN, PeriodKey(14), PeriodKey(13), PeriodKey(2)>>

L_DateNormalized == <<"D","a","t","e","_","n","o","r","m","a","l","i","z","e","d">>
L_PeriodNormalized == <<"P","e","r","i","o","d","_","n","o","r","m","a","l","i","z","e","d">>
L_Notes == <<"N","o","t","e","s">>
date_suffix == <<"_","n","o","r","m","a","l","i","z","e","d">>

\* Tables of three columns: two normalized date columns and a column of
\* another name that holds period keys too.
PeriodTables ==
  {<<[name |-> L_DateNormalized, cells |-> a],
     [name |-> L_Notes, cells |-> <<PeriodKey(1)>>],
     [name |-> L_PeriodNormalized, cells |-> b]>> :
     a \in ColumnsOf(PeriodCellPool, MaxPeriodCells),
     b \in ColumnsOf(PeriodCellPool, MaxPeriodCells - 1)}

PeriodsInit ==
  /\ w_df \in PeriodTables
  /\ w_call = [op |-> "no_periods"]
  /\ w_out = [raised |-> FALSE]
  /\ MapperOff
  /\ ParserOff
  /\ MetricsOff

\* available_periods = calc.get_available_periods()
GetAvailablePeriods ==
  /\ w_call.op = "no_periods"
  /\ w_call' = [op |-> "get_available_periods"]
  /\ w_out' = [raised |-> FALSE, periods |-> get_available_periods(w_df, date_suffix)]
  /\ UNCHANGED w_df
  /\ UNCHANGED <<mapperVars, parserVars, metricsVars>>

\* calc.suggest_period_ranges(periods), with the available periods or with
\* a list of the caller
SuggestPeriodRanges ==
  /\ w_call.op \in {"no_periods", "get_available_periods"}
  /\ \E periods \in PeriodLists
                      \cup (IF w_call.op = "get_available_periods" THEN {w_out.periods} ELSE {}) :
       /\ w_call' = [op |-> "suggest_period_ranges", periods |-> periods]
       /\ w_out' = [raised |-> FALSE, ret |-> suggest_period_ranges(periods)]
  /\ UNCHANGED w_df
  /\ UNCHANGED <<mapperVars, parserVars, metricsVars>>

PeriodsNext == GetAvailablePeriods \/ SuggestPeriodRanges

SpecPeriods == PeriodsInit /\ [][PeriodsNext]_vars

\* ------------------------------------------------------------------------
\* Claims about the period functions (checked under SpecPeriods)
\* ------------------------------------------------------------------------

PeriodsSuggested == w_call.op = "suggest_period_ranges"

\* The list is sorted and its periods are distinct.
SortedDistinct(periods) ==
  \A i \in 1..(Len(periods) - 1) : StrLess(periods[i], periods[i + 1])

\* C24: suggest_period_ranges on a sorted list of n distinct periods returns
\* two empty lists when n < 2; the latest 12 periods as period2 and the 12
\* right before them as period1 when n >= 24; otherwise period1 is the first
\* floor(n/2) periods and period2 the rest. period1 and period2 are disjoint,
\* every period of period1 precedes every period of period2, and both are
\* non-empty when n >= 2.
C24_SuggestedRanges ==
  (PeriodsSuggested /\ SortedDistinct(w_call.periods)) =>
    LET periods == w_call.periods
        n == Len(periods)
        period1 == w_out.ret.period1
        period2 == w_out.ret.period2
    IN /\ n < 2 => period1 = <<>> /\ period2 = <<>>
       /\ n >= 24 =>
            /\ period2 = [i \in 1..12 |-> periods[n - 12 + i]]
            /\ period1 = [i \in 1..12 |-> periods[n - 24 + i]]
       /\ (n >= 2 /\ n < 24) =>
            /\ period1 = [i \in 1..(n \div 2) |-> periods[i]]
            /\ period2 = [i \in 1..(n - n \div 2) |-> periods[n \div 2 + i]]
       /\ Range(period1) \cap Range(period2) = {}
       /\ \A i \in 1..Len(period1) : \A j \in 1..Len(period2) :
            StrLess(period1[i], period2[j])
       /\ n >= 2 => period1 # <<>> /\ period2 # <<>>

\* C24 witness: ranges were suggested for 25 periods, the earliest of which
\* is in neither range.
C24_Witness ==
  /\ PeriodsSuggested
  /\ Len(w_call.periods) = 25
  /\ Len(w_out.ret.period1) = 12
  /\ w_call.periods[1] \notin Range(w_out.ret.period1)


\* ------------------------------------------------------------------------
\* The three computing services side by side: the metrics calculator, the
\* waterfall calculator and its period functions
\* ------------------------------------------------------------------------

ServicesInit == MetricsInit \/ WaterfallInit \/ PeriodsInit

ServicesNext == MetricsNext \/ WaterfallNext \/ PeriodsNext

SpecServices == ServicesInit /\ [][ServicesNext]_vars

\* ------------------------------------------------------------------------
\* Claims about short histories (checked under SpecServices)
\* ------------------------------------------------------------------------

\* calculate_all_metrics was called on a calculator of fewer than 2 value
\* columns.
FewValueColumns == s_out.op = "calculate_all_metrics" /\ Len(s_value_columns) < 2

\* A waterfall of a supported kind was requested over empty period-column
\* sets.
EmptyPeriodColumns ==
  /\ \/ WfRaw
     \/ WfDerived /\ w_call.metric \in {"gross_profit", "operating_profit", "net_profit"}
  /\ w_call.period1_cols = <<>>
  /\ w_call.period2_cols = <<>>

\* C21: with fewer than 2 periods nothing raises and the results are empty:
\* calculate_all_metrics completes for 0 or 1 value columns with an empty
\* growth and three empty expense-driver lists, suggest_period_ranges returns
\* two empty lists, and a waterfall over empty period-column sets returns a
\* result.
C21_FewPeriodsNeverRaise ==
  /\ FewValueColumns =>
       /\ ~s_out.ret.raised
       /\ s_out.ret.growth = EmptyDict
       /\ s_out.ret.expense_drivers.top_expenses = <<>>
       /\ s_out.ret.expense_drivers.fastest_growing = <<>>
       /\ s_out.ret.expense_drivers.largest_increases = <<>>
  /\ (PeriodsSuggested /\ Len(w_call.periods) < 2) =>
       w_out.ret = [period1 |-> <<>>, period2 |-> <<>>]
  /\ EmptyPeriodColumns => ~w_out.raised


\* ------------------------------------------------------------------------
\* Repeated calls: _calculate_runway and categorize_accounts called up to
\* MaxRepeatCalls times on the same object, the clock moving on between the
\* calls and the AI collaborator answering the same each time
\* ------------------------------------------------------------------------

MaxRepeatCalls == 2

RepeatInit == RunwayInit \/ MapperInit

\* The date a is not after the date b.
NotAfter(a, b) ==
  \/ a.year < b.year
  \/ a.year = b.year /\ a.month < b.month
  \/ a.year = b.year /\ a.month = b.month /\ a.day <= b.day

\* calc._calculate_runway(cash_balance, avg_net_burn), once more
RepeatRunway ==
  /\ s_out.op \in {"idle", "_calculate_runway"}
  /\ s_out.op = "_calculate_runway" => s_out.call < MaxRepeatCalls
  /\ \E cash_balance \in RunwayCashBalances, avg_net_burn \in RunwayNetBurns,
         today \in Todays :
       /\ s_out.op = "_calculate_runway" => NotAfter(s_out.today, today)
       /\ s_out' = [op |-> "_calculate_runway",
                    call |-> IF s_out.op = "idle" THEN 1 ELSE s_out.call + 1,
                    cash_balance |-> cash_balance,
                    avg_net_burn |-> avg_net_burn,
                    today |-> today,
                    ret |-> _calculate_runway(cash_balance, avg_net_burn, today)]
  /\ UNCHANGED <<s_df, s_value_columns>>
  /\ UNCHANGED <<mapperVars, waterfallVars, parserVars>>

\* mapper.categorize_accounts(account_names), once more
RepeatCategorize ==
  /\ m_out.op \in {"idle", "categorize_accounts"}
  /\ m_out.op = "categorize_accounts" => m_out.call < MaxRepeatCalls
  /\ m_out' = [op |-> "categorize_accounts",
               call |-> IF m_out.op = "idle" THEN 1 ELSE m_out.call + 1,
               account_names |-> UniqueNames(m_df, 1, <<>>),
               ret |-> categorize_accounts(UniqueNames(m_df, 1, <<>>), m_ai)]
  /\ UNCHANGED <<m_df, m_ai>>
  /\ UNCHANGED <<waterfallVars, parserVars, metricsVars>>

RepeatNext == RepeatRunway \/ RepeatCategorize

SpecRepeat == RepeatInit /\ [][RepeatNext]_vars

\* ------------------------------------------------------------------------
\* Claims about repeated calls (checked under SpecRepeat)
\* ------------------------------------------------------------------------

\* The step is a second _calculate_runway call with the cash balance and the
\* burn of the first.
SameRunwayCall ==
  /\ s_out.op = "_calculate_runway"
  /\ s_out'.op = "_calculate_runway"
  /\ s_out'.call = s_out.call + 1
  /\ s_out'.cash_balance = s_out.cash_balance
  /\ s_out'.avg_net_burn = s_out.avg_net_burn

\* The step is a second categorize_accounts call on the names of the first,
\* the AI answering the same.
SameCategorizeCall ==
  /\ m_out.op = "categorize_accounts"
  /\ m_out'.op = "categorize_accounts"
  /\ m_out'.call = m_out.call + 1
  /\ m_out'.account_names = m_out.account_names
  /\ m_ai' = m_ai

\* C22: an operation run twice on identical input with an identical (or
\* absent) external response gives identical results: a second
\* _calculate_runway call with the same cash balance and burn returns the
\* runway record of the first, zero_cash_date included, and a second
\* categorize_accounts call on the same names with the same AI response
\* returns the same entry for every name.
C22_Reproducible ==
  [][/\ SameRunwayCall => s_out'.ret = s_out.ret
     /\ SameCategorizeCall => m_out'.ret = m_out.ret]_vars


\* ------------------------------------------------------------------------
\* The parser, the mapper and the waterfall calculator side by side: the
\* operations that are handed, or hand out, a table or a dict
\* ------------------------------------------------------------------------

CoreInit == ParserInit \/ MapperInit \/ WaterfallInit

CoreNext == ParserNext \/ MapperNext \/ WaterfallNext

SpecCore == CoreInit /\ [][CoreNext]_vars

\* ------------------------------------------------------------------------
\* Claims about shared state (checked under SpecCore)
\* ------------------------------------------------------------------------

\* The step is a parse_file call on a parser whose previous call returned a
\* result; the 'metadata' of that result is the dict self.metadata.
LaterParse ==
  /\ p_out.op = "parse_file"
  /\ ~p_out.ret.raised
  /\ p_calls' = p_calls + 1

\* C23: no core operation mutates state shared across invocations: the
\* metadata of a result returned by an earlier parse_file call is unchanged
\* by a later parse_file call on the same parser, batch_categorize_dataframe
\* leaves the table passed to it unchanged, and calculate_waterfall and
\* calculate_derived_metric leave the calculator's table unchanged.
C23_NoSharedMutation ==
  [][/\ LaterParse => p_metadata' = p_out.ret.metadata
     /\ m_out'.op = "batch_categorize_dataframe" => m_df' = m_df
     /\ w_call'.op \in {"calculate_waterfall", "calculate_derived_metric"} => w_df' = w_df]_vars


\* ------------------------------------------------------------------------
\* Claims about the burn trend (checked under SpecMetrics)
\* ------------------------------------------------------------------------

\* calculate_all_metrics returned, whatever the number of value columns.
AllMetricsReturned == s_out.op = "calculate_all_metrics" /\ ~s_out.ret.raised

\* The mean of the net burns of the periods from first to last.
NetBurnMean(first, last) ==
  Float(SumSeq(SubSeq(NetBurnSequence, first, last)), last - first + 1)

\* The percent change from earlier to recent; not a number when earlier is
\* not a number or zero.
PercentChange(earlier, recent) ==
  IF earlier = FloatNaN \/ FZero(earlier) THEN FloatNaN
  ELSE FMul(FDiv(FSub(recent, earlier), FAbs(earlier)), FloatOf(100))

\* The mean of the net burns of all periods earlier than the last 3; the
\* mean of no period is not a number.
EarlierMean ==
  IF NumPeriods > 3 THEN NetBurnMean(1, NumPeriods - 3) ELSE FloatNaN

\* What the trend is compared against: the mean of the periods earlier than
\* the last 3, and the net burn of the first period when there are exactly 3.
EarlierOrFirst ==
  IF NumPeriods > 3 THEN NetBurnMean(1, NumPeriods - 3) ELSE FloatOf(NetBurnSequence[1])

\* The burn record has a trend of 0 and the direction 'stable'.
StableTrend ==
  /\ s_out.ret.burn_rate # EmptyDict
  /\ s_out.ret.burn_rate.burn_rate_trend = FloatOf(0)
  /\ s_out.ret.burn_rate.burn_rate_trend_direction = "stable"

ParsedWithoutHints ==
  /\ p_out.op = "parse_file"
  /\ ~p_out.ret.raised
  /\ ~p_out.user_hints.given

\* The columns of the parsed statement and the roles given to them.
ParsedColumns == Range(p_out.ret.data.cols)
ColumnRoles == p_out.ret.metadata.columns

\* The column holds text in some row of the parsed statement.
IsTextColumn(c) ==
  \E r \in 1..Len(p_out.ret.data.rows) : p_out.ret.data.rows[r].cells[c].t = "str"

\* C26: without hints every column of the header-applied table gets exactly
\* one role: the account column is the first text column, or the first
\* column when there is no text column, and the account, date, value and
\* metadata sets are pairwise disjoint and together cover all columns.
C26_RolesPartitionColumns ==
  ParsedWithoutHints =>
    LET dates == Range(ColumnRoles.dates)
        values == Range(ColumnRoles.values)
        metadata == Range(ColumnRoles.metadata)
        texts == {c \in ParsedColumns : IsTextColumn(c)}
    IN /\ ColumnRoles.account
            = IF texts # {} THEN CHOOSE c \in texts : \A d \in texts : c <= d
              ELSE p_out.ret.data.cols[1]
       /\ ColumnRoles.account \notin dates \cup values \cup metadata
       /\ dates \cap values = {} /\ dates \cap metadata = {} /\ values \cap metadata = {}
       /\ {ColumnRoles.account} \cup dates \cup values \cup metadata = ParsedColumns


\* parse_file returned a statement.
Parsed == p_out.op = "parse_file" /\ ~p_out.ret.raised

\* The raw rows after row h (counted from 0) that are not fully empty.
RowsAfter(h) == SelectSeq(SubSeq(p_file, h + 2, Len(p_file)), NotAllEmpty)

\* C27: for every raw table and every header row index h, detected or given
\* as a hint, the column names of the parsed statement are the cells of raw
\* row h and its data rows are the raw rows after row h that are not fully
\* empty, in their order; the header_row of the metadata is the index of the
\* raw row used as the header.
C27_HeaderRowApplied ==
  Parsed =>
    LET h == p_out.ret.metadata.header_row
    IN /\ h < Len(p_file)
       /\ p_out.ret.data.names = p_file[h + 1]
       /\ [r \in 1..Len(p_out.ret.data.rows) |-> p_out.ret.data.rows[r].cells] = RowsAfter(h)


\* ------------------------------------------------------------------------
\* Claims about the keys of the mapping (checked under SpecMapper)
\* ------------------------------------------------------------------------

\* C28: the mapping categorize_accounts returns has exactly the requested
\* account names as keys, whatever the AI answers: every requested name has
\* an entry and no other name appears.
C28_KeysAreRequestedNames ==
  (m_out.op = "categorize_accounts" /\ ~m_out.ret.raised) =>
    DOMAIN m_out.ret.results = Range(m_out.account_names)


\* ------------------------------------------------------------------------
\* Claims about the runway insight (checked under SpecMetrics)
\* ------------------------------------------------------------------------

\* The insights about the runway, by type and priority.
RunwayInsights ==
  {<<s_out.ret.insights[i].type, s_out.ret.insights[i].priority>> :
     i \in {j \in 1..Len(s_out.ret.insights) : s_out.ret.insights[j].category = "runway"}}

\* The status of the runway record; "none" when there is no record.
RunwayStatus == IF s_out.ret.runway = None THEN "none" ELSE s_out.ret.runway.status

\* The call was made with no cash balance or with one that is not negative.
CashNotNegative == s_out.cash_balance = None \/ s_out.cash_balance.num >= 0

\* C29: in every result of calculate_all_metrics the runway insight agrees
\* with the runway record: a high-priority warning iff the status is
\* 'critical', a medium-priority caution iff it is 'concerning', a
\* low-priority positive insight iff it is 'strong', and no runway insight
\* for 'comfortable', 'profitable' or no runway record; for every cash
\* balance >= 0 and every average net burn.
C29_InsightAgreesWithStatus ==
  (AllMetricsReturned /\ CashNotNegative) =>
    RunwayInsights =
      IF RunwayStatus = "critical" THEN {<<"warning", "high">>}
      ELSE IF RunwayStatus = "concerning" THEN {<<"caution", "medium">>}
      ELSE IF RunwayStatus = "strong" THEN {<<"positive", "low">>}
      ELSE {}


\* ------------------------------------------------------------------------
\* Claims about subtotal rows (checked under SpecWaterfall)
\* ------------------------------------------------------------------------

\* The rows the metric selects that are line items.
SelectedLineItems == {i \in Contributing : w_df[i].row_type = "line_item"}

\* C30: rows whose row_type is 'subtotal' never contribute to a waterfall,
\* whatever the metric (unfiltered, raw category or derived): no subtotal row
\* is counted in the period-1 or period-2 total, is shown as a driver bar or
\* is part of Other.
C30_SubtotalsNeverContribute ==
  WfDone =>
    LET signedP1 == [i \in Contributing |-> AppliedSign(i) * Period1Total(i)]
        signedP2 == [i \in Contributing |-> AppliedSign(i) * Period2Total(i)]
        moved == [i \in Contributing |-> AppliedSign(i) * (Period2Total(i) - Period1Total(i))]
    IN /\ w_out.values[1] = SumOver(signedP1, SelectedLineItems)
       /\ w_out.values[NumBars] = SumOver(signedP2, SelectedLineItems)
       /\ DriverRows \subseteq SelectedLineItems
       /\ OtherEmitted =>
            w_out.values[NumBars - 1] = SumOver(moved, SelectedLineItems \ DriverRows)

====
